---- MODULE Spec2Model ----
\* Verification model of the SPAI agent runtime:
\*   - the run registry of src/src/background.rs (BackgroundExecutor),
\*   - the block store of src/src/memory.rs (MemoryBlock, AgentMemory,
\*     SharedMemoryManager) and its message history,
\*   - the sleep-time agent of src/src/sleeptime.rs (SleepTimeAgent).
\* Every critical section of the source (one acquisition of a tokio RwLock)
\* is one atomic action; a handler with two critical sections is two actions.
EXTENDS Integers, Sequences, FiniteSets, TLC

\* ------------------------------------------------------------------ bounds
MaxTime == 1        \* ticks of the wall clock (Utc::now())
NumWaiters == 2     \* callers of wait_for_completion
MaxAfter == 4       \* largest starting_after cursor a reader passes
MaxContextSize == 100  \* config.max_context_size of the modelled AgentMemory
MaxBlockSize == 81     \* the max_size a caller gives a block, when it gives one
MaxValueLen == 101     \* longest value an append is followed to
MaxLoops == 2          \* loop tasks one SleepTimeAgent spawns (successful starts)
MaxMessages == 2       \* entries of the message history
MaxAttach == 3         \* attach_shared_block calls
MaxTicks == 1          \* interval ticks counted after the first

VARIABLES
    runs,            \* BackgroundExecutor.runs : RunId -> BackgroundRun
    pending_insert,  \* execute_async between tokio::spawn and runs.insert
    task,            \* the spawned task of each run
    waiter,          \* callers of wait_for_completion
    cursor,          \* resuming client: seq_id of the last event it received
    received,        \* resuming client: every event delivered to it so far
    ret,             \* what the last cancel_run / cleanup_old_runs returned
    now,             \* Utc::now()
    blocks,          \* AgentMemory.blocks : MemoryBlockId -> MemoryBlock
    mgr_blocks,      \* SharedMemoryManager.blocks
    mem_err,         \* what the last memory operation returned
    message_history, \* AgentMemory.message_history (role and words of each entry)
    running,         \* SleepTimeAgent.running: the flag
    running_lock,    \* the caller that holds the write guard of `running` (0: free)
    shutdown,        \* value of the shutdown watch channel
    task_handle,     \* SleepTimeAgent.task_handle
    loops,           \* the consolidation loop tasks spawned by start()
    caller,          \* callers of start() and stop()
    sleep_ret,       \* what the last start() / stop() returned
    pg,              \* paginating client: its traversal of each run's log
    meta_snap,       \* what get_run_metadata last returned for each run
    shared_blocks,   \* AgentMemory.shared_blocks of each agent
    all_ret,         \* the all_blocks call of each agent: progress and result
    attach_calls,    \* attach_shared_block calls made so far
    recent_ret,      \* what get_recent_messages last returned
    drop_task,       \* the task spawned by Drop for SleepTimeAgent
    ticks,           \* interval ticks elapsed after the first
    enable_pattern_detection  \* SleepTimeConfig.enable_pattern_detection

runVars == <<runs, pending_insert, task, waiter, cursor, received, ret>>
memVars == <<blocks, mgr_blocks, mem_err, message_history>>
sleepVars == <<running, running_lock, shutdown, task_handle, loops, caller,
              sleep_ret>>
clientVars == <<pg, meta_snap>>
sharedVars == <<shared_blocks, all_ret, attach_calls>>
auxVars == <<recent_ret, drop_task, ticks, enable_pattern_detection>>
vars == <<runs, pending_insert, task, waiter, cursor, received, ret, now,
          blocks, mgr_blocks, mem_err, message_history,
          running, running_lock, shutdown, task_handle, loops, caller,
          sleep_ret, pg, meta_snap, shared_blocks, all_ret, attach_calls,
          recent_ret, drop_task, ticks, enable_pattern_detection>>

\* ------------------------------------------------------------- Option<T>
None == <<>>
Some(x) == <<x>>
IsSome(o) == o # <<>>
Unwrap(o) == o[1]

\* Run ids are fresh v4 UUIDs.  Every operation reads and writes only the map
\* entry of the id it is given, and cleanup_old_runs filters each entry by that
\* entry's own fields, so the model follows the entry of one id.
RunIds == {1}
Waiters == 1..NumWaiters
Afters == {None} \cup {Some(k) : k \in 0..MaxAfter}

\* --------------------------------------------------------------- SeqId
SeqNext_stuck(s) == s
SeqNext(s) == s + 1

\* ------------------------------------------------------------ RunStatus
Terminal(st) == st \in {"Completed", "Failed", "Cancelled"}

\* ----------------------------------------------------------- run records
\* The BackgroundRun that execute_async builds for a fresh run id.
NewRun(r, t) ==
    [metadata |-> [status |-> "Queued",
                   created_at |-> t,
                   started_at |-> None,
                   completed_at |-> None,
                   total_events |-> 0,
                   last_seq_id |-> 0],
     events |-> <<>>,
     task_handle |-> Some(r)]

\* The four-statement block that every writer of the source repeats:
\* build the event with seq_id = last_seq_id, push it, advance last_seq_id,
\* bump total_events.
PushEvent_nocount(run, type, data, t) ==
    LET event == [seq_id |-> run.metadata.last_seq_id,
                  timestamp |-> t,
                  event_type |-> type,
                  data |-> data]
    IN [run EXCEPT !.events = Append(@, event),
                   !.metadata.last_seq_id = SeqNext(@)]

PushEvent(run, type, data, t) ==
    LET event == [seq_id |-> run.metadata.last_seq_id,
                  timestamp |-> t,
                  event_type |-> type,
                  data |-> data]
    IN [run EXCEPT !.events = Append(@, event),
                   !.metadata.last_seq_id = SeqNext(@),
                   !.metadata.total_events = @ + 1]

\* run.task_handle.take()
TakeHandle_keep(run) == run
TakeHandle(run) == [run EXCEPT !.task_handle = None]

\* First critical section of the spawned task: status Running + Started.
RunStarted(run, t) ==
    PushEvent([run EXCEPT !.metadata.status = "Running",
                          !.metadata.started_at = Some(t)],
              "Started", "input", t)

\* Second critical section of the spawned task, by the result of react_loop.
RunFinished(run, result, t) ==
    LET r0 == [run EXCEPT !.metadata.completed_at = Some(t)]
    IN IF result = "Ok"
       THEN PushEvent(PushEvent([r0 EXCEPT !.metadata.status = "Completed"],
                                "Output", "content", t),
                      "Completed", "{}", t)
       ELSE PushEvent([r0 EXCEPT !.metadata.status = "Failed"],
                      "Failed", "error", t)

\* The body of `if let Some(handle) = run.task_handle.take()` in cancel_run.
RunCancelled(run, t) ==
    PushEvent([TakeHandle(run) EXCEPT !.metadata.status = "Cancelled",
                                      !.metadata.completed_at = Some(t)],
              "Failed", "Cancelled by user", t)

\* stream_events: the filter over run.events.
RECURSIVE FilterAfter_ge(_, _)
FilterAfter_ge(evs, after) ==
    IF evs = <<>> THEN <<>>
    ELSE IF Head(evs).seq_id >= after
         THEN <<Head(evs)>> \o FilterAfter_ge(Tail(evs), after)
         ELSE FilterAfter_ge(Tail(evs), after)

RECURSIVE FilterAfter(_, _)
FilterAfter(evs, after) ==
    IF evs = <<>> THEN <<>>
    ELSE IF Head(evs).seq_id > after
         THEN <<Head(evs)>> \o FilterAfter(Tail(evs), after)
         ELSE FilterAfter(Tail(evs), after)

StreamEvents_all(evs, starting_after) == evs
StreamEvents(evs, starting_after) ==
    IF IsSome(starting_after)
    THEN FilterAfter(evs, Unwrap(starting_after))
    ELSE evs

\* ------------------------------------------------------------------ Init
NoTask == [pc |-> "none", suspended |-> FALSE, aborted |-> FALSE, result |-> "pending"]
IdleWaiter == [state |-> "idle", run |-> 0]

\* The loop tasks of one SleepTimeAgent and the callers of its start/stop.
LoopIds == 1..MaxLoops
Callers == {1, 2}
NoLoop == [pc |-> "none", unseen |-> FALSE, tick_ready |-> FALSE,
           snapshot |-> {}, pass_now |-> 0, last_pass |-> "none",
           recent |-> <<>>, existing |-> None, summary |-> <<>>]
IdleCaller == [pc |-> "idle", target |-> 0]
EndedLoop == [NoLoop EXCEPT !.pc = "done"]

IdlePager == [phase |-> "idle", limit |-> 0, cursor |-> None, received |-> <<>>]
Agents == {1, 2}
NoCall == [pc |-> "idle", owned |-> {}, todo |-> <<>>, shared |-> <<>>]

InitRun ==
    /\ runs = <<>>
    /\ pending_insert = <<>>
    /\ task = [r \in RunIds |-> NoTask]
    /\ waiter = [w \in Waiters |-> IdleWaiter]
    /\ cursor = [r \in RunIds |-> None]
    /\ received = [r \in RunIds |-> <<>>]
    /\ ret = <<"none", "none">>
    /\ now = 0

\* AgentMemory::new and SharedMemoryManager::new: empty maps.
InitMem ==
    /\ blocks = <<>>
    /\ mgr_blocks = <<>>
    /\ mem_err = "none"
    /\ message_history = <<>>

\* SleepTimeAgent::new: not running, the channel holds false, no task.
InitSleep ==
    /\ running = FALSE
    /\ running_lock = 0
    /\ shutdown = FALSE
    /\ task_handle = None
    /\ loops = [t \in LoopIds |-> NoLoop]
    /\ caller = [c \in Callers |-> IdleCaller]
    /\ sleep_ret = <<"none", "none">>

\* The clients: no traversal under way, no metadata fetched.
InitClient ==
    /\ pg = [r \in RunIds |-> IdlePager]
    /\ meta_snap = [r \in RunIds |-> None]

\* AgentMemory::new for each agent: no shared reference.
InitShared ==
    /\ shared_blocks = [a \in Agents |-> <<>>]
    /\ all_ret = [a \in Agents |-> NoCall]
    /\ attach_calls = 0

\* No get_recent_messages call made, the agent not dropped, no tick elapsed.
InitAux ==
    /\ recent_ret = None
    /\ drop_task = "none"
    /\ ticks = 0
    /\ enable_pattern_detection = FALSE

Init == InitRun /\ InitMem /\ InitSleep /\ InitClient /\ InitShared /\ InitAux

\* --------------------------------------------------------------- helpers
Restrict(f, S) == [x \in S |-> f[x]]
Known(r) == r \in DOMAIN runs

\* wait_for_completion takes the write guard of `runs` inside the block that
\* takes the handle; the guard is dropped at the end of that block, before
\* handle.await.  Every critical section below needs the lock free of it.
HoldsRegistry_waiting(wt) == wt.state = "waiting"
HoldsRegistry(wt) == FALSE
RegistryFree == \A w \in Waiters : ~HoldsRegistry(waiter[w])

\* --------------------------------------------------------- execute_async
\* Up to and including tokio::spawn: the metadata is built (created_at is
\* read here) and the task exists, but the run is not in the map yet.
ExecuteAsyncSpawn(r) ==
    /\ task[r].pc = "none"
    /\ task' = [task EXCEPT ![r] = [pc |-> "start", suspended |-> TRUE,
                                    aborted |-> FALSE, result |-> "pending"]]
    /\ pending_insert' = (r :> NewRun(r, now)) @@ pending_insert
    /\ UNCHANGED <<runs, waiter, cursor, received, ret, now, memVars, sleepVars, clientVars, sharedVars, auxVars>>

\* self.runs.write().await; runs.insert(run_id, run); Ok(run_id)
ExecuteAsyncInsert(r) ==
    /\ RegistryFree
    /\ r \in DOMAIN pending_insert
    /\ runs' = (r :> pending_insert[r]) @@ runs
    /\ pending_insert' = Restrict(pending_insert, DOMAIN pending_insert \ {r})
    /\ UNCHANGED <<task, waiter, cursor, received, ret, now, memVars, sleepVars, clientVars, sharedVars, auxVars>>

\* ------------------------------------------------------- the spawned task
\* tokio polls the task: it runs until the next await that is not ready.
\* A JoinHandle::abort() that arrives while the task is parked (or not yet
\* polled) drops the future; one that arrives during a poll only takes
\* effect when that poll returns Pending.
Live(r) == task[r].pc \in {"start", "react", "finish"}

TaskPoll(r) ==
    /\ Live(r) /\ task[r].suspended
    /\ task' = [task EXCEPT ![r].suspended = FALSE]
    /\ UNCHANGED <<runs, pending_insert, waiter, cursor, received, ret, now, memVars, sleepVars, clientVars, sharedVars, auxVars>>

TaskYield(r) ==
    /\ Live(r) /\ ~task[r].suspended
    /\ task' = IF task[r].aborted
               THEN [task EXCEPT ![r].pc = "cancelled"]
               ELSE [task EXCEPT ![r].suspended = TRUE]
    /\ UNCHANGED <<runs, pending_insert, waiter, cursor, received, ret, now, memVars, sleepVars, clientVars, sharedVars, auxVars>>

TaskStart(r) ==
    /\ RegistryFree
    /\ task[r].pc = "start" /\ ~task[r].suspended
    /\ runs' = IF Known(r)
               THEN [runs EXCEPT ![r] = RunStarted(@, now)]
               ELSE runs
    /\ task' = [task EXCEPT ![r].pc = "react"]
    /\ UNCHANGED <<pending_insert, waiter, cursor, received, ret, now, memVars, sleepVars, clientVars, sharedVars, auxVars>>

\* agent.react_loop(&input).await: the external completion call.
TaskReact(r, res) ==
    /\ task[r].pc = "react" /\ ~task[r].suspended
    /\ task' = [task EXCEPT ![r].pc = "finish", ![r].result = res]
    /\ UNCHANGED <<runs, pending_insert, waiter, cursor, received, ret, now, memVars, sleepVars, clientVars, sharedVars, auxVars>>

TaskFinish(r) ==
    /\ RegistryFree
    /\ task[r].pc = "finish" /\ ~task[r].suspended
    /\ runs' = IF Known(r)
               THEN [runs EXCEPT ![r] = RunFinished(@, task[r].result, now)]
               ELSE runs
    /\ task' = [task EXCEPT ![r].pc = "done"]
    /\ UNCHANGED <<pending_insert, waiter, cursor, received, ret, now, memVars, sleepVars, clientVars, sharedVars, auxVars>>

\* --------------------------------------------------- wait_for_completion
\* First half: the critical section that takes the handle.
WaitForCompletion(w, r) ==
    /\ RegistryFree
    /\ waiter[w].state = "idle"
    /\ IF ~Known(r)
       THEN /\ waiter' = [waiter EXCEPT ![w] = [state |-> "NotFound", run |-> r]]
            /\ runs' = runs
       ELSE IF ~IsSome(runs[r].task_handle)
       THEN /\ waiter' = [waiter EXCEPT ![w] = [state |-> "HandleAlreadyConsumed", run |-> r]]
            /\ runs' = runs
       ELSE /\ waiter' = [waiter EXCEPT ![w] = [state |-> "waiting", run |-> r]]
            /\ runs' = [runs EXCEPT ![r] = TakeHandle(@)]
    /\ UNCHANGED <<pending_insert, task, cursor, received, ret, now, memVars, sleepVars, clientVars, sharedVars, auxVars>>

\* Second half: handle.await resolves once the task is finished.
WaitJoin(w) ==
    /\ waiter[w].state = "waiting"
    /\ task[waiter[w].run].pc \in {"done", "cancelled"}
    /\ waiter' = [waiter EXCEPT ![w].state =
                    IF task[waiter[w].run].pc = "cancelled" THEN "JoinError"
                    ELSE IF task[waiter[w].run].result = "Ok" THEN "Ok"
                    ELSE "Failed"]
    /\ UNCHANGED <<runs, pending_insert, task, cursor, received, ret, now, memVars, sleepVars, clientVars, sharedVars, auxVars>>

\* ------------------------------------------------------------ cancel_run
\* `if let Some(handle) = run.task_handle.take()`: is the ticket still held?
HasTicket_always(run) == TRUE
HasTicket(run) == IsSome(run.task_handle)

Abort(t) ==
    IF t.pc \in {"done", "cancelled", "none"} THEN t
    ELSE IF t.suspended THEN [t EXCEPT !.pc = "cancelled"]
    ELSE [t EXCEPT !.aborted = TRUE]

CancelRun(r) ==
    /\ RegistryFree
    /\ IF ~Known(r)
       THEN /\ ret' = <<"cancel_run", "NotFound">>
            /\ UNCHANGED <<runs, task>>
       ELSE /\ ret' = <<"cancel_run", "Ok">>
            /\ IF HasTicket(runs[r])
               THEN /\ task' = [task EXCEPT ![r] = Abort(@)]
                    /\ runs' = [runs EXCEPT ![r] = RunCancelled(@, now)]
               ELSE UNCHANGED <<runs, task>>
    /\ UNCHANGED <<pending_insert, waiter, cursor, received, now, memVars, sleepVars, clientVars, sharedVars, auxVars>>

\* ------------------------------------------------------ cleanup_old_runs
ToRemove_le(older_than) ==
    {r \in DOMAIN runs :
        /\ Terminal(runs[r].metadata.status)
        /\ IsSome(runs[r].metadata.completed_at)
        /\ Unwrap(runs[r].metadata.completed_at) <= now - older_than}

ToRemove(older_than) ==
    {r \in DOMAIN runs :
        /\ Terminal(runs[r].metadata.status)
        /\ IsSome(runs[r].metadata.completed_at)
        /\ Unwrap(runs[r].metadata.completed_at) < now - older_than}

CleanupOldRuns(older_than) ==
    /\ RegistryFree
    /\ runs' = Restrict(runs, DOMAIN runs \ ToRemove(older_than))
    /\ ret' = <<"cleanup_old_runs", Cardinality(ToRemove(older_than))>>
    /\ UNCHANGED <<pending_insert, task, waiter, cursor, received, now, memVars, sleepVars, clientVars, sharedVars, auxVars>>

\* ---------------------------------------------------------- stream_events
\* A client that resumes: it passes the seq_id of the last event it holds.
ResumeStream(r) ==
    /\ RegistryFree
    /\ Known(r)
    /\ LET got == StreamEvents(runs[r].events, cursor[r])
       IN /\ received' = [received EXCEPT ![r] = @ \o got]
          /\ cursor' = [cursor EXCEPT ![r] =
                          IF got = <<>> THEN @ ELSE Some(got[Len(got)].seq_id)]
    /\ UNCHANGED <<runs, pending_insert, task, waiter, ret, now, memVars, sleepVars, clientVars, sharedVars, auxVars>>

\* ------------------------------------------------------------------ clock
Tick ==
    /\ now < MaxTime
    /\ now' = now + 1
    /\ UNCHANGED <<runVars, memVars, sleepVars, clientVars, sharedVars, auxVars>>

NextRun ==
    \/ \E r \in RunIds : ExecuteAsyncSpawn(r)
    \/ \E r \in RunIds : ExecuteAsyncInsert(r)
    \/ \E r \in RunIds : TaskPoll(r)
    \/ \E r \in RunIds : TaskYield(r)
    \/ \E r \in RunIds : TaskStart(r)
    \/ \E r \in RunIds, res \in {"Ok", "Err"} : TaskReact(r, res)
    \/ \E r \in RunIds : TaskFinish(r)
    \/ \E w \in Waiters, r \in RunIds : WaitForCompletion(w, r)
    \/ \E w \in Waiters : WaitJoin(w)
    \/ \E r \in RunIds : CancelRun(r)
    \/ \E d \in {0, 1} : CleanupOldRuns(d)
    \/ \E r \in RunIds : ResumeStream(r)
    \/ Tick

Next == NextRun

Spec == Init /\ [][Next]_vars

\* ======================================================================
\* Pagination and metadata reads (src/src/background.rs)
\* ======================================================================
\* usize, at a width of UsizeBits bits: start_idx + limit is a usize addition.
UsizeBits == 4
UsizeMax == 2^UsizeBits - 1
Limits == {0, 1, 2, UsizeMax}
TraversalLimits == {1, 2, UsizeMax}

\* run.events.iter().position(|e| e.seq_id > cursor_seq).unwrap_or(len):
\* the 0-based index of the first event after the cursor.
RECURSIVE PagePosition_ge(_, _, _)
PagePosition_ge(evs, cursor_seq, i) ==
    IF i >= Len(evs) THEN Len(evs)
    ELSE IF evs[i + 1].seq_id >= cursor_seq THEN i
    ELSE PagePosition_ge(evs, cursor_seq, i + 1)

RECURSIVE PagePosition(_, _, _)
PagePosition(evs, cursor_seq, i) ==
    IF i >= Len(evs) THEN Len(evs)
    ELSE IF evs[i + 1].seq_id > cursor_seq THEN i
    ELSE PagePosition(evs, cursor_seq, i + 1)

\* The call did not return: the addition overflowed (a panic in a debug
\* build; in a release build it wraps to a value below start_idx and the
\* slice events[start_idx..end_idx] panics).
Panicked == [panic |-> TRUE, events |-> <<>>, next_cursor |-> None,
             has_more |-> FALSE, total_events |-> 0]

\* get_events_paginated, for a run that is in the registry.
Paginate(run, page_cursor, limit) ==
    LET evs == run.events
        start_idx == IF IsSome(page_cursor)
                     THEN PagePosition(evs, Unwrap(page_cursor), 0)
                     ELSE 0
        sum == start_idx + limit
        end_idx == IF sum < Len(evs) THEN sum ELSE Len(evs)
        page == SubSeq(evs, start_idx + 1, end_idx)
    IN IF sum > UsizeMax
       THEN Panicked
       ELSE [panic |-> FALSE,
             events |-> page,
             next_cursor |-> IF page = <<>> THEN None
                             ELSE Some(page[Len(page)].seq_id),
             has_more |-> end_idx < Len(evs),
             total_events |-> run.metadata.total_events]

\* What a traversing client keeps of a page.
Turn(p, limit, page) ==
    [phase |-> IF page.has_more THEN "more" ELSE "end",
     limit |-> limit,
     cursor |-> page.next_cursor,
     received |-> p.received \o page.events]

\* A client starts a traversal: get_events_paginated(id, None, limit).
PageFirst(r, limit) ==
    /\ RegistryFree
    /\ Known(r)
    /\ pg[r].phase = "idle"
    /\ pg' = [pg EXCEPT ![r] = Turn(@, limit, Paginate(runs[r], None, limit))]
    /\ UNCHANGED <<runVars, now, meta_snap, memVars, sleepVars, sharedVars, auxVars>>

\* ... and goes on with the cursor it was given while has_more is true.
PageNext(r) ==
    /\ RegistryFree
    /\ Known(r)
    /\ pg[r].phase = "more"
    /\ pg' = [pg EXCEPT ![r] =
                Turn(@, pg[r].limit, Paginate(runs[r], pg[r].cursor, pg[r].limit))]
    /\ UNCHANGED <<runVars, now, meta_snap, memVars, sleepVars, sharedVars, auxVars>>

\* get_run_metadata: a copy of the metadata (kept with the number of events
\* the log held at that moment).
GetRunMetadata(r) ==
    /\ RegistryFree
    /\ Known(r)
    /\ meta_snap' = [meta_snap EXCEPT ![r] =
                       Some([metadata |-> runs[r].metadata,
                             log_len |-> Len(runs[r].events)])]
    /\ UNCHANGED <<runVars, now, pg, memVars, sleepVars, sharedVars, auxVars>>

NextPage ==
    \/ \E r \in RunIds : ExecuteAsyncSpawn(r)
    \/ \E r \in RunIds : ExecuteAsyncInsert(r)
    \/ \E r \in RunIds : TaskPoll(r)
    \/ \E r \in RunIds : TaskYield(r)
    \/ \E r \in RunIds : TaskStart(r)
    \/ \E r \in RunIds, res \in {"Ok", "Err"} : TaskReact(r, res)
    \/ \E r \in RunIds : TaskFinish(r)
    \/ \E r \in RunIds : CancelRun(r)
    \/ \E r \in RunIds, l \in TraversalLimits : PageFirst(r, l)
    \/ \E r \in RunIds : PageNext(r)
    \/ \E r \in RunIds : GetRunMetadata(r)

SpecPage == Init /\ [][NextPage]_vars

\* ======================================================================
\* Memory blocks (src/src/memory.rs)
\* ======================================================================
\* A String is the sequence of its bytes.  The description, metadata and
\* created_at fields of a block are set by the constructor and neither read
\* nor written by any operation, and are left out of the record.
Rep(n) == [i \in 1..n |-> "x"]
NL == <<"\n">>
Contents == {Rep(n) : n \in {40, 60}}
Values ==
    Contents \cup {v \in {a \o NL \o b : a \in Contents, b \in Contents} :
                      Len(v) <= MaxValueLen}
BlockIds == {"A", "B"}
SharedIds == {"S"}
Labels == {"task_context"}
MaxSizes == {None, Some(MaxBlockSize)}

\* MemoryBlock::new followed by the caller's writes to the public fields
\* max_size and in_context.
NewBlock(id, label, value, max_size, in_context, t) ==
    [id |-> id, label |-> label, value |-> value, max_size |-> max_size,
     in_context |-> in_context, updated_at |-> t]

\* MemoryBlock::size
Size(b) == Len(b.value)

\* MemoryBlock::update_value: the result and the block as it is left.
UpdateValue_partial(b, new_val, t) ==
    IF IsSome(b.max_size) /\ Len(new_val) > Unwrap(b.max_size)
    THEN [ok |-> FALSE, block |-> [b EXCEPT !.value = new_val]]
    ELSE [ok |-> TRUE, block |-> [b EXCEPT !.value = new_val, !.updated_at = t]]

UpdateValue(b, new_val, t) ==
    IF IsSome(b.max_size) /\ Len(new_val) > Unwrap(b.max_size)
    THEN [ok |-> FALSE, block |-> b]
    ELSE [ok |-> TRUE, block |-> [b EXCEPT !.value = new_val, !.updated_at = t]]

\* MemoryBlock::append: format!("{}\n{}", self.value, content), then
\* update_value.
BlockAppend(b, content, t) == UpdateValue(b, b.value \o NL \o content, t)

\* MemoryBlock::set_in_context
SetInContext(b, flag, t) == [b EXCEPT !.in_context = flag, !.updated_at = t]

RECURSIVE SumSize(_, _)
SumSize(bs, ids) ==
    IF ids = {} THEN 0
    ELSE LET i == CHOOSE x \in ids : TRUE
         IN Size(bs[i]) + SumSize(bs, ids \ {i})

\* AgentMemory::in_context_blocks / out_of_context_blocks (the ids of the
\* copies returned) and AgentMemory::context_size.
InContextBlocks(bs) == {i \in DOMAIN bs : bs[i].in_context}
OutOfContextBlocks(bs) == {i \in DOMAIN bs : ~bs[i].in_context}
ContextSize_all(bs) == SumSize(bs, DOMAIN bs)
ContextSize(bs) == SumSize(bs, InContextBlocks(bs))

\* move_into_context: the total of the in-context blocks other than id, and
\* the budget test.
CurrentSizeWithout(bs, id) ==
    SumSize(bs, {i \in DOMAIN bs : bs[i].in_context /\ bs[i].id # id})
WouldExceed_ge(current_size, block_size) ==
    current_size + block_size >= MaxContextSize
WouldExceed(current_size, block_size) ==
    current_size + block_size > MaxContextSize

\* ------------------------------------------------------------ AgentMemory
\* add_block: blocks.insert(block.id, block), with no check of any kind.
AddBlock(id, label, value, max_size, in_context) ==
    /\ blocks' = (id :> NewBlock(id, label, value, max_size, in_context, now)) @@ blocks
    /\ mem_err' = "Ok"
    /\ UNCHANGED <<mgr_blocks, message_history, now, runVars, sleepVars, clientVars, sharedVars, auxVars>>

UpdateBlock(id, new_value) ==
    /\ IF id \in DOMAIN blocks
       THEN LET r == UpdateValue(blocks[id], new_value, now)
            IN /\ blocks' = [blocks EXCEPT ![id] = r.block]
               /\ mem_err' = IF r.ok THEN "Ok" ELSE "BlockSizeExceeded"
       ELSE /\ blocks' = blocks
            /\ mem_err' = "NotFound"
    /\ UNCHANGED <<mgr_blocks, message_history, now, runVars, sleepVars, clientVars, sharedVars, auxVars>>

\* A caller that appends to a stored block (as perform_summarization does):
\* it appends to its copy of the block and, unless that failed, writes the
\* copy's value back with update_block.
AppendBlock(id, content) ==
    /\ id \in DOMAIN blocks
    /\ Len(blocks[id].value) + 1 + Len(content) <= MaxValueLen
    /\ LET updated == BlockAppend(blocks[id], content, now)
           r == UpdateValue(blocks[id], updated.block.value, now)
       IN IF ~updated.ok
          THEN /\ blocks' = blocks
               /\ mem_err' = "BlockSizeExceeded"
          ELSE /\ blocks' = [blocks EXCEPT ![id] = r.block]
               /\ mem_err' = IF r.ok THEN "Ok" ELSE "BlockSizeExceeded"
    /\ UNCHANGED <<mgr_blocks, message_history, now, runVars, sleepVars, clientVars, sharedVars, auxVars>>

DeleteBlock(id) ==
    /\ IF id \in DOMAIN blocks
       THEN /\ blocks' = Restrict(blocks, DOMAIN blocks \ {id})
            /\ mem_err' = "Ok"
       ELSE /\ blocks' = blocks
            /\ mem_err' = "NotFound"
    /\ UNCHANGED <<mgr_blocks, message_history, now, runVars, sleepVars, clientVars, sharedVars, auxVars>>

\* move_out_of_context and move_into_context as functions of the block map:
\* what they return and the map as they leave it.
MoveOut(bs, id, t) ==
    IF id \in DOMAIN bs
    THEN [err |-> "Ok", blocks |-> [bs EXCEPT ![id] = SetInContext(@, FALSE, t)]]
    ELSE [err |-> "NotFound", blocks |-> bs]

MoveInto(bs, id, t) ==
    IF id \notin DOMAIN bs
    THEN [err |-> "NotFound", blocks |-> bs]
    ELSE IF WouldExceed(CurrentSizeWithout(bs, id), Size(bs[id]))
    THEN [err |-> "ContextBudgetExceeded", blocks |-> bs]
    ELSE [err |-> "Ok", blocks |-> [bs EXCEPT ![id] = SetInContext(@, TRUE, t)]]

MoveOutOfContext(id) ==
    /\ blocks' = MoveOut(blocks, id, now).blocks
    /\ mem_err' = MoveOut(blocks, id, now).err
    /\ UNCHANGED <<mgr_blocks, message_history, now, runVars, sleepVars, clientVars, sharedVars, auxVars>>

MoveIntoContext(id) ==
    /\ blocks' = MoveInto(blocks, id, now).blocks
    /\ mem_err' = MoveInto(blocks, id, now).err
    /\ UNCHANGED <<mgr_blocks, message_history, now, runVars, sleepVars, clientVars, sharedVars, auxVars>>

\* A caller that archives a block and brings it straight back:
\* move_out_of_context(id)?; move_into_context(id)? with nothing in between.
MoveOutThenInto(id) ==
    /\ LET out == MoveOut(blocks, id, now)
           back == MoveInto(out.blocks, id, now)
       IN IF out.err # "Ok"
          THEN /\ blocks' = out.blocks
               /\ mem_err' = out.err
          ELSE /\ blocks' = back.blocks
               /\ mem_err' = back.err
    /\ UNCHANGED <<mgr_blocks, message_history, now, runVars, sleepVars, clientVars, sharedVars, auxVars>>

\* ---------------------------------------------------- SharedMemoryManager
\* create_block: MemoryBlock::with_description under a fresh id.
MgrCreateBlock(id, label, value) ==
    /\ id \notin DOMAIN mgr_blocks
    /\ mgr_blocks' = (id :> NewBlock(id, label, value, None, TRUE, now)) @@ mgr_blocks
    /\ mem_err' = "Ok"
    /\ UNCHANGED <<blocks, message_history, now, runVars, sleepVars, clientVars, sharedVars, auxVars>>

MgrUpdateBlock(id, new_value) ==
    /\ IF id \in DOMAIN mgr_blocks
       THEN LET r == UpdateValue(mgr_blocks[id], new_value, now)
            IN /\ mgr_blocks' = [mgr_blocks EXCEPT ![id] = r.block]
               /\ mem_err' = IF r.ok THEN "Ok" ELSE "BlockSizeExceeded"
       ELSE /\ mgr_blocks' = mgr_blocks
            /\ mem_err' = "NotFound"
    /\ UNCHANGED <<blocks, message_history, now, runVars, sleepVars, clientVars, sharedVars, auxVars>>

NextMem ==
    \/ \E id \in BlockIds, l \in Labels, v \in Values, m \in MaxSizes, c \in BOOLEAN :
          AddBlock(id, l, v, m, c)
    \/ \E id \in BlockIds, v \in Values : UpdateBlock(id, v)
    \/ \E id \in BlockIds, c \in Contents : AppendBlock(id, c)
    \/ \E id \in BlockIds : DeleteBlock(id)
    \/ \E id \in BlockIds : MoveOutOfContext(id)
    \/ \E id \in BlockIds : MoveIntoContext(id)
    \/ \E id \in BlockIds : MoveOutThenInto(id)
    \/ \E id \in SharedIds, l \in Labels, v \in Contents : MgrCreateBlock(id, l, v)
    \/ \E id \in SharedIds, v \in Contents : MgrUpdateBlock(id, v)
    \/ Tick

SpecMem == Init /\ [][NextMem]_vars

\* ======================================================================
\* Shared blocks (src/src/memory.rs)
\* ======================================================================
\* Two AgentMemory instances over one SharedMemoryManager.  Agent 1 is the
\* memory modelled above (its own map is `blocks`); of agent 2 only the
\* shared references are followed, its own map staying as AgentMemory::new
\* leaves it.
AttachIds == {"S", "T"}
OwnBlocks(a) == IF a = 1 THEN blocks ELSE <<>>

\* attach_shared_block: the body of its critical section.
AttachRefs_dup(shared, block_id) == Append(shared, block_id)
AttachRefs(shared, block_id) ==
    IF \E i \in 1..Len(shared) : shared[i] = block_id
    THEN shared
    ELSE Append(shared, block_id)

\* It waits while an all_blocks call of the same agent holds the read guard of
\* the references.
AttachSharedBlock(a, block_id) ==
    /\ attach_calls < MaxAttach
    /\ all_ret[a].pc # "lookup"
    /\ attach_calls' = attach_calls + 1
    /\ shared_blocks' = [shared_blocks EXCEPT ![a] = AttachRefs(@, block_id)]
    /\ UNCHANGED <<all_ret, memVars, now, runVars, sleepVars, clientVars, auxVars>>

\* SharedMemoryManager::get_block
SharedLookup_none(mgr, id) == None
SharedLookup(mgr, id) == IF id \in DOMAIN mgr THEN Some(mgr[id]) ELSE None

\* all_blocks: the owned blocks are copied and the list of references is
\* read; both read guards are kept to the end of the call.  Without a
\* manager the call returns here.
AllBlocksStart(a, with_manager) ==
    /\ all_ret[a].pc # "lookup"
    /\ all_ret' = [all_ret EXCEPT ![a] =
                     [pc |-> IF with_manager THEN "lookup" ELSE "returned",
                      owned |-> {OwnBlocks(a)[i] : i \in DOMAIN OwnBlocks(a)},
                      todo |-> IF with_manager THEN shared_blocks[a] ELSE <<>>,
                      shared |-> <<>>]]
    /\ UNCHANGED <<shared_blocks, attach_calls, memVars, now, runVars,
                   sleepVars, clientVars, auxVars>>

\* all_blocks: one iteration of `for id in shared_ids.iter()`, each a read
\* of the manager under its own lock; the call returns after the last.
AllBlocksLookup(a) ==
    /\ all_ret[a].pc = "lookup"
    /\ IF all_ret[a].todo = <<>>
       THEN all_ret' = [all_ret EXCEPT ![a].pc = "returned"]
       ELSE LET found == SharedLookup(mgr_blocks, Head(all_ret[a].todo))
            IN all_ret' = [all_ret EXCEPT
                             ![a].todo = Tail(@),
                             ![a].shared = IF IsSome(found)
                                           THEN Append(@, Unwrap(found))
                                           ELSE @]
    /\ UNCHANGED <<shared_blocks, attach_calls, memVars, now, runVars,
                   sleepVars, clientVars, auxVars>>

\* add_block on agent 1's own map: it waits while an all_blocks call of that
\* agent holds the read guard of the map.
OwnAddBlock(id, value) ==
    /\ all_ret[1].pc # "lookup"
    /\ AddBlock(id, "task_context", value, None, TRUE)

NextShared ==
    \/ \E id \in AttachIds, l \in Labels : MgrCreateBlock(id, l, Rep(40))
    \/ \E id \in AttachIds, v \in Contents : MgrUpdateBlock(id, v)
    \/ \E a \in Agents, id \in AttachIds : AttachSharedBlock(a, id)
    \/ \E a \in Agents, m \in BOOLEAN : AllBlocksStart(a, m)
    \/ \E a \in Agents : AllBlocksLookup(a)
    \/ OwnAddBlock("A", Rep(40))

SpecShared == Init /\ [][NextShared]_vars

\* ======================================================================
\* Sleep-time agent (src/src/sleeptime.rs)
\* ======================================================================
\* One SleepTimeAgent over the AgentMemory above.  Its configuration is the
\* caller's: the thresholds and switches below are those of the modelled
\* instance, which has summarization enabled; enable_pattern_detection is
\* fixed when the agent is built.  A pass is the message gate, the
\* context-size test, the archival, the summarization and the pattern
\* detection.
EnableSummarization == TRUE
MinMessagesForConsolidation == 1
ContextWarningThreshold == 50
RecentLimit == 1000
OneHour == 1
ProtectedLabels == {"persona", "organization", "system"}
Roles == {"assistant"}
Ages == {0, 2}

\* MemoryBlock::new draws a fresh id and fixes the label: the block added
\* under an id always carries the label it was built with.
LabelOf(id) == IF id = "A" THEN "task_context" ELSE "persona"

\* AgentMemory::get_recent_messages
GetRecentMessages(history, limit) ==
    LET start == IF Len(history) > limit THEN Len(history) - limit ELSE 0
    IN SubSeq(history, start + 1, Len(history))

\* AgentMemory::add_message
Msg(role, content) == [role |-> role, content |-> content]
AddMessage(role, content) ==
    /\ Len(message_history) < MaxMessages
    /\ message_history' = Append(message_history, Msg(role, content))
    /\ UNCHANGED <<blocks, mgr_blocks, mem_err, now, runVars, sleepVars, clientVars, sharedVars, auxVars>>

\* add_block of a block whose updated_at the caller has set back by `age`
\* hours (updated_at is a public field).
AddBlockAged(id, label, value, age) ==
    /\ blocks' = (id :> NewBlock(id, label, value, None, TRUE, now - age)) @@ blocks
    /\ mem_err' = "Ok"
    /\ UNCHANGED <<mgr_blocks, message_history, now, runVars, sleepVars, clientVars, sharedVars, auxVars>>

\* start(): `if *running`.
AlreadyRunning_never(flag) == FALSE
AlreadyRunning(flag) == flag

Alive(t) == loops[t].pc \notin {"none", "done"}
FreeLoops == {t \in LoopIds : loops[t].pc = "none"}

\* watch::Sender::send: every receiver sees a change it has not consumed.
Notify(ls) == [t \in LoopIds |-> IF ls[t].pc \in {"none", "done"}
                                 THEN ls[t]
                                 ELSE [ls[t] EXCEPT !.unseen = TRUE]]

\* start().  The write guard of `running` lives to the end of the function,
\* and nothing in the body waits on a resource another actor can hold
\* (task_handle is only locked by holders of the `running` guard), so the
\* body is one step once the lock is free.  The receiver handed to the task
\* is a clone of the agent's own receiver, which has consumed nothing: the
\* send(false) just made counts as unseen.  The first tick of a
\* tokio interval is ready at once.
Start(c) ==
    /\ drop_task = "none"
    /\ caller[c].pc = "idle"
    /\ running_lock = 0
    /\ IF AlreadyRunning(running)
       THEN /\ sleep_ret' = <<"start", "AlreadyRunning">>
            /\ UNCHANGED <<running, shutdown, task_handle, loops>>
       ELSE /\ FreeLoops # {}
            /\ LET t == CHOOSE x \in FreeLoops : \A y \in FreeLoops : x <= y
               IN /\ loops' = [Notify(loops) EXCEPT ![t] =
                                 [pc |-> "select", unseen |-> TRUE,
                                  tick_ready |-> TRUE, snapshot |-> {},
                                  pass_now |-> 0, last_pass |-> "none",
                                  recent |-> <<>>, existing |-> None,
                                  summary |-> <<>>]]
                  /\ task_handle' = Some(t)
            /\ running' = TRUE
            /\ shutdown' = FALSE
            /\ sleep_ret' = <<"start", "Ok">>
    /\ UNCHANGED <<running_lock, caller, memVars, now, runVars, clientVars, sharedVars, auxVars>>

\* stop(), up to handle.await: the guard of `running` is taken and kept, the
\* flag is cleared, true is sent, the handle is taken.
StopBegin(c) ==
    /\ drop_task = "none"
    /\ caller[c].pc = "idle"
    /\ running_lock = 0
    /\ running' = FALSE
    /\ shutdown' = TRUE
    /\ loops' = Notify(loops)
    /\ task_handle' = None
    /\ IF IsSome(task_handle)
       THEN /\ caller' = [caller EXCEPT ![c] = [pc |-> "joining",
                                                target |-> Unwrap(task_handle)]]
            /\ running_lock' = c
            /\ sleep_ret' = sleep_ret
       ELSE /\ sleep_ret' = <<"stop", "Ok">>
            /\ UNCHANGED <<caller, running_lock>>
    /\ UNCHANGED <<memVars, now, runVars, clientVars, sharedVars, auxVars>>

\* JoinHandle::await is ready once the task's future has returned.
Joined_nowait(l) == TRUE
Joined(l) == l.pc = "done"

\* stop(): handle.await resolves when the loop task has ended; the function
\* returns and drops its guards.
StopJoin(c) ==
    /\ caller[c].pc = "joining"
    /\ Joined(loops[caller[c].target])
    /\ caller' = [caller EXCEPT ![c] = IdleCaller]
    /\ sleep_ret' = <<"stop", "Ok">>
    /\ running_lock' = 0
    /\ UNCHANGED <<running, shutdown, task_handle, loops, memVars, now, runVars, clientVars, sharedVars, auxVars>>

\* Drop for SleepTimeAgent.  drop(&mut self) needs the only reference, so no
\* start() or stop() is under way.  tokio::spawn panics when it is called
\* outside the context of a runtime (the agent is dropped on a thread that
\* has not entered the runtime its loop task runs on): then no task is
\* spawned.  The JoinHandle in task_handle is dropped, which detaches the
\* loop task.
DropAgent(in_runtime) ==
    /\ drop_task = "none"
    /\ \A c \in Callers : caller[c].pc = "idle"
    /\ drop_task' = IF in_runtime THEN "spawned" ELSE "panicked"
    /\ task_handle' = None
    /\ UNCHANGED <<running, running_lock, shutdown, loops, caller, sleep_ret,
                   memVars, now, runVars, clientVars, sharedVars, recent_ret,
                   ticks, enable_pattern_detection>>

\* The task spawned by drop: the write guard of `running`, the flag cleared,
\* true sent.
DropTaskRun ==
    /\ drop_task = "spawned"
    /\ running_lock = 0
    /\ running' = FALSE
    /\ shutdown' = TRUE
    /\ loops' = Notify(loops)
    /\ drop_task' = "done"
    /\ UNCHANGED <<running_lock, task_handle, caller, sleep_ret, memVars, now,
                   runVars, clientVars, sharedVars, recent_ret, ticks,
                   enable_pattern_detection>>

\* ------------------------------------------------------------ the loop task
\* select!: the shutdown_rx.changed() branch.
LoopChanged(t) ==
    /\ loops[t].pc = "select"
    /\ loops[t].unseen
    /\ loops' = [loops EXCEPT ![t] = IF shutdown THEN EndedLoop
                                      ELSE [@ EXCEPT !.unseen = FALSE]]
    /\ UNCHANGED <<running, running_lock, shutdown, task_handle, caller,
                   sleep_ret, memVars, now, runVars, clientVars, sharedVars, auxVars>>

\* select!: the interval.tick() branch.  select! polls its branches in random
\* order, so when both are ready either can be taken.
LoopTick(t) ==
    /\ loops[t].pc = "select"
    /\ loops[t].tick_ready
    /\ loops' = [loops EXCEPT ![t].tick_ready = FALSE, ![t].pc = "read_flag"]
    /\ UNCHANGED <<running, running_lock, shutdown, task_handle, caller,
                   sleep_ret, memVars, now, runVars, clientVars, sharedVars, auxVars>>

\* The consolidation interval elapses.
IntervalElapsed(t) ==
    /\ Alive(t)
    /\ ~loops[t].tick_ready
    /\ loops' = [loops EXCEPT ![t].tick_ready = TRUE]
    /\ ticks' = IF ticks < MaxTicks THEN ticks + 1 ELSE ticks
    /\ UNCHANGED <<running, running_lock, shutdown, task_handle, caller,
                   sleep_ret, memVars, now, runVars, clientVars, sharedVars,
                   recent_ret, drop_task, enable_pattern_detection>>

\* let should_run = *running_flag.read().await: waits while a writer holds
\* the lock.
LoopReadFlag(t) ==
    /\ loops[t].pc = "read_flag"
    /\ running_lock = 0
    /\ loops' = [loops EXCEPT ![t] = IF running THEN [@ EXCEPT !.pc = "messages"]
                                      ELSE EndedLoop]
    /\ UNCHANGED <<running, running_lock, shutdown, task_handle, caller,
                   sleep_ret, memVars, now, runVars, clientVars, sharedVars, auxVars>>

\* The end of a pass inside the loop: an Err is printed and dropped, and the
\* loop goes back to select!.
PassEnd_propagate(l, result) ==
    IF result = "Err" THEN EndedLoop
    ELSE [l EXCEPT !.pc = "select", !.last_pass = result, !.snapshot = {},
                   !.recent = <<>>, !.existing = None, !.summary = <<>>]

PassEnd(l, result) ==
    [l EXCEPT !.pc = "select", !.last_pass = result, !.snapshot = {},
              !.recent = <<>>, !.existing = None, !.summary = <<>>]

\* perform_summarization: `if messages.len() < 50 { return Ok(()) }`.
SummaryBatch == 50

\* consolidate_memory after the summarization: detect_patterns is run when
\* it is enabled, else the pass is over.
AfterSummarization(l) ==
    IF enable_pattern_detection
    THEN [l EXCEPT !.pc = "patterns_read", !.snapshot = {},
                   !.existing = None, !.summary = <<>>]
    ELSE PassEnd(l, "Ok")

\* consolidate_memory after the archival: the summarization is run when it
\* is enabled; with too few messages it returns at once.
AfterArchival(l) ==
    IF EnableSummarization /\ ~(Len(l.recent) < SummaryBatch)
    THEN [l EXCEPT !.pc = "summarize_read", !.snapshot = {}]
    ELSE AfterSummarization(l)

\* consolidate_memory: `Self::perform_archival(memory).await?` with an Err.
ArchivalFailed_continue(l) == AfterArchival(l)
ArchivalFailed(l) == PassEnd(l, "Err")

\* consolidate_memory: recent_messages.len() < min_messages_for_consolidation.
SkipPass_never(count) == FALSE
SkipPass(count) == count < MinMessagesForConsolidation

\* consolidate_memory: the message gate.
PassMessages(t) ==
    /\ loops[t].pc = "messages"
    /\ loops' = [loops EXCEPT ![t] =
                   IF SkipPass(Len(GetRecentMessages(message_history, RecentLimit)))
                   THEN PassEnd(@, "Ok")
                   ELSE [@ EXCEPT !.pc = "context_size",
                                  !.recent = GetRecentMessages(message_history,
                                                               RecentLimit)]]
    /\ UNCHANGED <<running, running_lock, shutdown, task_handle, caller,
                   sleep_ret, memVars, now, runVars, clientVars, sharedVars, auxVars>>

\* consolidate_memory: needs_archival = context_size > context_warning_threshold.
PassContextSize(t) ==
    /\ loops[t].pc = "context_size"
    /\ loops' = [loops EXCEPT ![t] =
                   IF ContextSize(blocks) > ContextWarningThreshold
                   THEN [@ EXCEPT !.pc = "snapshot"]
                   ELSE AfterArchival(@)]
    /\ UNCHANGED <<running, running_lock, shutdown, task_handle, caller,
                   sleep_ret, memVars, now, runVars, clientVars, sharedVars, auxVars>>

\* perform_archival: the copy of the in-context blocks and the clock read.
PassSnapshot(t) ==
    /\ loops[t].pc = "snapshot"
    /\ loops' = [loops EXCEPT ![t].pc = "archive",
                              ![t].snapshot = {blocks[i] : i \in InContextBlocks(blocks)},
                              ![t].pass_now = now]
    /\ UNCHANGED <<running, running_lock, shutdown, task_handle, caller,
                   sleep_ret, memVars, now, runVars, clientVars, sharedVars, auxVars>>

\* perform_archival: the test on one block of the copy.
Archivable_nolabel(b, t) == t - b.updated_at > OneHour
Archivable(b, t) ==
    /\ t - b.updated_at > OneHour
    /\ b.label \notin ProtectedLabels

\* perform_archival: one iteration of the for loop (the copy is a Vec built
\* from a HashMap, so any order), or the end of the pass when none is left.
PassArchiveStep(t) ==
    /\ loops[t].pc = "archive"
    /\ IF loops[t].snapshot = {}
       THEN /\ loops' = [loops EXCEPT ![t] = AfterArchival(@)]
            /\ blocks' = blocks
       ELSE \E b \in loops[t].snapshot :
              IF ~Archivable(b, loops[t].pass_now)
              THEN /\ loops' = [loops EXCEPT ![t].snapshot = @ \ {b}]
                   /\ blocks' = blocks
              ELSE LET r == MoveOut(blocks, b.id, now)
                   IN IF r.err = "Ok"
                      THEN /\ loops' = [loops EXCEPT ![t].snapshot = @ \ {b}]
                           /\ blocks' = r.blocks
                      ELSE /\ loops' = [loops EXCEPT ![t] = ArchivalFailed(@)]
                           /\ blocks' = blocks
    /\ UNCHANGED <<running, running_lock, shutdown, task_handle, caller,
                   sleep_ret, mgr_blocks, mem_err, message_history, now, runVars, clientVars, sharedVars, auxVars>>

\* -------------------------------------------------- perform_summarization
\* A message content is held as the words split_whitespace yields, a word as
\* the sequence of its bytes (ASCII).
UpperCase ==
    <<"A", "B", "C", "D", "E", "F", "G", "H", "I", "J", "K", "L", "M", "N",
      "O", "P", "Q", "R", "S", "T", "U", "V", "W", "X", "Y", "Z">>

\* char::to_lowercase and str::to_lowercase
ToLowerChar(c) ==
    LET LowerCase ==
            <<"a", "b", "c", "d", "e", "f", "g", "h", "i", "j", "k", "l", "m",
              "n", "o", "p", "q", "r", "s", "t", "u", "v", "w", "x", "y", "z">>
    IN IF \E i \in 1..Len(UpperCase) : UpperCase[i] = c
       THEN LowerCase[CHOOSE i \in 1..Len(UpperCase) : UpperCase[i] = c]
       ELSE c
ToLowercase(word) == [i \in 1..Len(word) |-> ToLowerChar(word[i])]

\* format!("{}", n) of a usize
RECURSIVE Digits(_)
Digits(n) ==
    LET DigitChars == <<"0", "1", "2", "3", "4", "5", "6", "7", "8", "9">>
    IN IF n < 10 THEN <<DigitChars[n + 1]>>
       ELSE Digits(n \div 10) \o <<DigitChars[(n % 10) + 1]>>

\* [String]::join
RECURSIVE Join(_, _)
Join(strs, sep) ==
    IF strs = <<>> THEN <<>>
    ELSE IF Len(strs) = 1 THEN strs[1]
    ELSE strs[1] \o sep \o Join(Tail(strs), sep)

\* m.role == role, counted over the messages to summarize
RECURSIVE CountRole(_, _)
CountRole(msgs, role) ==
    IF msgs = <<>> THEN 0
    ELSE (IF Head(msgs).role = role THEN 1 ELSE 0) + CountRole(Tail(msgs), role)

\* The keyword extraction: the test on one word, the inner loop over the
\* words of a message and the outer loop over the messages (once
\* MaxKeywords are held, the remaining iterations push nothing).
KeywordMinLen == 5
MaxKeywords == 10
LongWord_ge(word) == Len(word) >= KeywordMinLen
LongWord(word) == Len(word) > KeywordMinLen
Contains(strs, x) == \E i \in 1..Len(strs) : strs[i] = x
PushKeyword(keywords, word) ==
    IF LongWord(word) /\ ~Contains(keywords, ToLowercase(word))
          /\ Len(keywords) < MaxKeywords
    THEN Append(keywords, ToLowercase(word))
    ELSE keywords
RECURSIVE KeywordsOfWords(_, _)
KeywordsOfWords(words, keywords) ==
    IF words = <<>> THEN keywords
    ELSE KeywordsOfWords(Tail(words), PushKeyword(keywords, Head(words)))
RECURSIVE KeywordsOf(_, _)
KeywordsOf(msgs, keywords) ==
    IF msgs = <<>> \/ Len(keywords) = MaxKeywords THEN keywords
    ELSE KeywordsOf(Tail(msgs), KeywordsOfWords(Head(msgs).content, keywords))

\* &messages[..50.min(messages.len())]
ToSummarize(messages) ==
    SubSeq(messages, 1, IF SummaryBatch < Len(messages) THEN SummaryBatch
                        ELSE Len(messages))

\* The text of the summary, as the push_str and format! calls build it.
Dash ==
    <<"-", " ">>
FormatSummary(user_msgs, assistant_msgs, keywords) ==
    LET SummaryHead ==
            <<"S", "u", "m", "m", "a", "r", "y", " ", "o", "f", " ", "r", "e",
              "c", "e", "n", "t", " ", "c", "o", "n", "v", "e", "r", "s", "a",
              "t", "i", "o", "n", ":", "\n">>
        UserMessages ==
            <<" ", "u", "s", "e", "r", " ", "m", "e", "s", "s", "a", "g", "e",
              "s", ",", " ">>
        AssistantResponses ==
            <<" ", "a", "s", "s", "i", "s", "t", "a", "n", "t", " ", "r", "e",
              "s", "p", "o", "n", "s", "e", "s", "\n">>
        KeyTopics ==
            <<"-", " ", "K", "e", "y", " ", "t", "o", "p", "i", "c", "s", ":",
              " ">>
        CommaSpace == <<",", " ">>
    IN SummaryHead
          \o Dash \o Digits(user_msgs) \o UserMessages
          \o Digits(assistant_msgs) \o AssistantResponses
          \o KeyTopics \o Join(keywords, CommaSpace) \o NL
SummaryOf(messages) ==
    LET to_summarize == ToSummarize(messages)
    IN FormatSummary(CountRole(to_summarize, "user"),
                     CountRole(to_summarize, "assistant"),
                     KeywordsOf(to_summarize, <<>>))

SummaryLabel == "conversation_summary"
\* The id MemoryBlock::new draws for the block the pass creates: a fresh
\* UUID, different from every id a caller holds.
SummaryId == "N"
\* The ids MemoryBlock::new draws for the blocks the passes create, in the
\* order they are drawn: each pass creates at most two blocks.
FreshId(bs) ==
    LET FreshLetters == <<SummaryId, "O", "P", "Q", "R", "U", "V", "W">>
        FreshIds == SubSeq(FreshLetters, 1, 2 * (MaxTicks + 1))
    IN FreshIds[CHOOSE i \in 1..Len(FreshIds) :
                   /\ FreshIds[i] \notin DOMAIN bs
                   /\ \A j \in 1..(i - 1) : FreshIds[j] \in DOMAIN bs]

\* perform_summarization up to the read of the in-context blocks: the text
\* is built, then `find` takes the first block labeled conversation_summary
\* of a Vec built from a HashMap, so any of them.
PassSummarizeRead(t) ==
    /\ loops[t].pc = "summarize_read"
    /\ LET found == {i \in InContextBlocks(blocks) : blocks[i].label = SummaryLabel}
       IN \/ /\ found = {}
             /\ loops' = [loops EXCEPT ![t].pc = "summarize_write",
                                       ![t].existing = None,
                                       ![t].summary = SummaryOf(loops[t].recent)]
          \/ \E i \in found :
                loops' = [loops EXCEPT ![t].pc = "summarize_write",
                                       ![t].existing = Some(blocks[i]),
                                       ![t].summary = SummaryOf(loops[t].recent)]
    /\ UNCHANGED <<running, running_lock, shutdown, task_handle, caller,
                   sleep_ret, memVars, now, runVars, clientVars, sharedVars, auxVars>>

\* perform_summarization: the write.  With a block found, its copy is
\* appended to and the copy's value written back with update_block; without,
\* a new block is added.
PassSummarizeWrite(t) ==
    /\ loops[t].pc = "summarize_write"
    /\ IF IsSome(loops[t].existing)
       THEN LET existing == Unwrap(loops[t].existing)
                updated == BlockAppend(existing, loops[t].summary, now)
            IN IF ~updated.ok
               THEN /\ blocks' = blocks
                    /\ loops' = [loops EXCEPT ![t] = PassEnd(@, "Err")]
               ELSE IF existing.id \notin DOMAIN blocks
               THEN /\ blocks' = blocks
                    /\ loops' = [loops EXCEPT ![t] = PassEnd(@, "Err")]
               ELSE LET r == UpdateValue(blocks[existing.id],
                                         updated.block.value, now)
                    IN /\ blocks' = [blocks EXCEPT ![existing.id] = r.block]
                       /\ loops' = [loops EXCEPT ![t] =
                                      IF r.ok THEN AfterSummarization(@)
                                      ELSE PassEnd(@, "Err")]
       ELSE /\ blocks' = (FreshId(blocks) :>
                             NewBlock(FreshId(blocks), SummaryLabel,
                                      loops[t].summary, None, TRUE, now))
                            @@ blocks
            /\ loops' = [loops EXCEPT ![t] = AfterSummarization(@)]
    /\ UNCHANGED <<running, running_lock, shutdown, task_handle, caller,
                   sleep_ret, mgr_blocks, mem_err, message_history, now,
                   runVars, clientVars, sharedVars, auxVars>>

\* --------------------------------------------------------- detect_patterns
\* The content of a message is its words joined by one space; the key of a
\* user message is the lowercase of the first 50 chars of its content.
PatternKeyLen == 50
RepeatThreshold == 3
PatternKey(msg) ==
    LET content == Join(msg.content, <<" ">>)
        take == SubSeq(content, 1, IF PatternKeyLen < Len(content)
                                   THEN PatternKeyLen ELSE Len(content))
    IN ToLowercase(take)
QuestionPatterns(messages) ==
    LET users == {i \in 1..Len(messages) : messages[i].role = "user"}
    IN [k \in {PatternKey(messages[i]) : i \in users} |->
          Cardinality({i \in users : PatternKey(messages[i]) = k})]
Repeated(messages) ==
    {k \in DOMAIN QuestionPatterns(messages) :
        QuestionPatterns(messages)[k] >= RepeatThreshold}

\* The orders in which a HashMap can be iterated.
Orders(set) ==
    {seq \in [1..Cardinality(set) -> set] :
        \A i, j \in 1..Cardinality(set) : i # j => seq[i] # seq[j]}

PatternsText(repeated) ==
    LET PatternsHead ==
            <<"D", "e", "t", "e", "c", "t", "e", "d", " ", "r", "e", "p", "e",
              "a", "t", "e", "d", " ", "q", "u", "e", "s", "t", "i", "o", "n",
              "s", ":", "\n">>
    IN PatternsHead
          \o Join([i \in 1..Len(repeated) |-> Dash \o repeated[i]], NL)
PatternsLabel == "detected_patterns"

\* detect_patterns up to the read of the in-context blocks.  In this step
\* and the next the loop's `summary` holds patterns_text and `existing` the
\* block `find` returned.
PassPatternsRead(t) ==
    /\ loops[t].pc = "patterns_read"
    /\ LET repeated == Repeated(loops[t].recent)
           found == {i \in InContextBlocks(blocks) : blocks[i].label = PatternsLabel}
       IN IF loops[t].recent = <<>> \/ repeated = {}
          THEN loops' = [loops EXCEPT ![t] = PassEnd(@, "Ok")]
          ELSE \E order \in Orders(repeated) :
                 \/ /\ found = {}
                    /\ loops' = [loops EXCEPT ![t].pc = "patterns_write",
                                              ![t].existing = None,
                                              ![t].summary = PatternsText(order)]
                 \/ \E i \in found :
                       loops' = [loops EXCEPT ![t].pc = "patterns_write",
                                              ![t].existing = Some(blocks[i]),
                                              ![t].summary = PatternsText(order)]
    /\ UNCHANGED <<running, running_lock, shutdown, task_handle, caller,
                   sleep_ret, memVars, now, runVars, clientVars, sharedVars, auxVars>>

\* detect_patterns: the write.  update_block of the block found, else
\* add_block of a new one.  Either ends the pass.
PassPatternsWrite(t) ==
    /\ loops[t].pc = "patterns_write"
    /\ IF IsSome(loops[t].existing)
       THEN LET existing == Unwrap(loops[t].existing)
            IN IF existing.id \notin DOMAIN blocks
               THEN /\ blocks' = blocks
                    /\ loops' = [loops EXCEPT ![t] = PassEnd(@, "Err")]
               ELSE LET r == UpdateValue(blocks[existing.id],
                                         loops[t].summary, now)
                    IN /\ blocks' = [blocks EXCEPT ![existing.id] = r.block]
                       /\ loops' = [loops EXCEPT ![t] =
                                      PassEnd(@, IF r.ok THEN "Ok" ELSE "Err")]
       ELSE /\ blocks' = (FreshId(blocks) :>
                             NewBlock(FreshId(blocks), PatternsLabel,
                                      loops[t].summary, None, TRUE, now))
                            @@ blocks
            /\ loops' = [loops EXCEPT ![t] = PassEnd(@, "Ok")]
    /\ UNCHANGED <<running, running_lock, shutdown, task_handle, caller,
                   sleep_ret, mgr_blocks, mem_err, message_history, now,
                   runVars, clientVars, sharedVars, auxVars>>

\* ------------------------------------------ histories to be summarized
\* The histories a caller has built with add_message before the agent is
\* started: none, one short of a batch, a batch, and more than a batch.
TopicLetters == <<"a", "b", "c", "d", "e", "f", "g", "h", "i", "j", "k", "l">>
Topic(i) == <<"t", "o", "p", "i", "c", TopicLetters[i]>>
TopicUpper(i) == <<"T", "O", "P", "I", "C", TopicLetters[i]>>
ShortWord == <<"t", "o", "p", "i", "c">>
RoleAt(i) == IF i % 3 = 0 THEN "system"
             ELSE IF i % 2 = 1 THEN "user" ELSE "assistant"
History49 == [i \in 1..49 |-> Msg(RoleAt(i), <<Topic(1), ShortWord>>)]
History50 ==
    [i \in 1..50 |-> Msg(RoleAt(i), <<TopicUpper(((i - 1) % 12) + 1), ShortWord,
                                      Topic((i % 12) + 1)>>)]
History60 ==
    [i \in 1..60 |-> IF i <= 50
                     THEN Msg(RoleAt(i), <<Topic((i % 3) + 1), ShortWord>>)
                     ELSE Msg("user", <<Topic(12)>>)]
Histories == {<<>>, History49, History50, History60}

InitSummary ==
    /\ InitRun /\ InitSleep /\ InitClient /\ InitShared /\ InitAux
    /\ blocks = <<>>
    /\ mgr_blocks = <<>>
    /\ mem_err = "none"
    /\ message_history \in Histories

NextSummary ==
    \/ \E c \in Callers : Start(c)
    \/ \E t \in LoopIds : LoopChanged(t)
    \/ \E t \in LoopIds : LoopTick(t)
    \/ \E t \in LoopIds : LoopReadFlag(t)
    \/ \E t \in LoopIds : PassMessages(t)
    \/ \E t \in LoopIds : PassContextSize(t)
    \/ \E t \in LoopIds : PassSnapshot(t)
    \/ \E t \in LoopIds : PassArchiveStep(t)
    \/ \E t \in LoopIds : PassSummarizeRead(t)
    \/ \E t \in LoopIds : PassSummarizeWrite(t)
    \/ \E a \in Ages : AddBlockAged("A", LabelOf("A"), Rep(60), a)
    \/ \E ms \in MaxSizes : AddBlock("C", SummaryLabel, Rep(40), ms, TRUE)
    \/ \E id \in {"A", "C"} : DeleteBlock(id)
    \/ MoveOutOfContext("C")

SpecSummary == InitSummary /\ [][NextSummary]_vars

\* An agent with pattern detection enabled.  HistoryRepeat holds two
\* questions asked again and again; the shortest history is one question.
HistoryRepeat ==
    [i \in 1..52 |-> Msg(IF i % 2 = 1 THEN "user" ELSE "assistant",
                         <<TopicUpper(((i \div 2) % 2) + 1), ShortWord>>)]
PatternHistories == {<<Msg("user", <<Topic(1)>>)>>, History49, HistoryRepeat}

InitPatterns ==
    /\ InitRun /\ InitSleep /\ InitClient /\ InitShared
    /\ recent_ret = None
    /\ drop_task = "none"
    /\ ticks = 0
    /\ enable_pattern_detection = TRUE
    /\ blocks = <<>>
    /\ mgr_blocks = <<>>
    /\ mem_err = "none"
    /\ message_history \in PatternHistories

\* One pass over a memory whose owner adds and deletes blocks meanwhile.
NextArchival ==
    \/ \E c \in Callers : Start(c)
    \/ \E t \in LoopIds : LoopChanged(t)
    \/ \E t \in LoopIds : LoopTick(t)
    \/ \E t \in LoopIds : LoopReadFlag(t)
    \/ \E t \in LoopIds : PassMessages(t)
    \/ \E t \in LoopIds : PassContextSize(t)
    \/ \E t \in LoopIds : PassSnapshot(t)
    \/ \E t \in LoopIds : PassArchiveStep(t)
    \/ \E t \in LoopIds : PassSummarizeRead(t)
    \/ \E t \in LoopIds : PassSummarizeWrite(t)
    \/ \E t \in LoopIds : PassPatternsRead(t)
    \/ \E t \in LoopIds : PassPatternsWrite(t)
    \/ \E id \in BlockIds, a \in Ages : AddBlockAged(id, "task_context", Rep(60), a)
    \/ \E id \in BlockIds : DeleteBlock(id)

SpecArchival == InitPatterns /\ [][NextArchival]_vars

\* Passes one after the other over a memory whose owner, meanwhile, updates
\* and archives the blocks the passes have created.
NextConsolidate ==
    \/ \E c \in Callers : Start(c)
    \/ \E t \in LoopIds : LoopChanged(t)
    \/ \E t \in LoopIds : LoopTick(t)
    \/ \E t \in LoopIds : ticks < MaxTicks /\ IntervalElapsed(t)
    \/ \E t \in LoopIds : LoopReadFlag(t)
    \/ \E t \in LoopIds : PassMessages(t)
    \/ \E t \in LoopIds : PassContextSize(t)
    \/ \E t \in LoopIds : PassSnapshot(t)
    \/ \E t \in LoopIds : PassArchiveStep(t)
    \/ \E t \in LoopIds : PassSummarizeRead(t)
    \/ \E t \in LoopIds : PassSummarizeWrite(t)
    \/ \E t \in LoopIds : PassPatternsRead(t)
    \/ \E t \in LoopIds : PassPatternsWrite(t)
    \/ \E id \in DOMAIN blocks : UpdateBlock(id, Rep(40))
    \/ \E id \in DOMAIN blocks : MoveOutOfContext(id)

SpecConsolidate == InitPatterns /\ [][NextConsolidate]_vars

\* Passes one after the other over a memory that its owner has filled
\* before start() and leaves alone afterwards.
NextQuiet ==
    \/ \E c \in Callers : Start(c)
    \/ \E t \in LoopIds : LoopChanged(t)
    \/ \E t \in LoopIds : LoopTick(t)
    \/ \E t \in LoopIds : ticks < MaxTicks /\ IntervalElapsed(t)
    \/ \E t \in LoopIds : LoopReadFlag(t)
    \/ \E t \in LoopIds : PassMessages(t)
    \/ \E t \in LoopIds : PassContextSize(t)
    \/ \E t \in LoopIds : PassSnapshot(t)
    \/ \E t \in LoopIds : PassArchiveStep(t)
    \/ \E t \in LoopIds : PassSummarizeRead(t)
    \/ \E t \in LoopIds : PassSummarizeWrite(t)
    \/ \E t \in LoopIds : PassPatternsRead(t)
    \/ \E t \in LoopIds : PassPatternsWrite(t)
    \/ \E id \in BlockIds, a \in Ages :
          /\ \A t \in LoopIds : loops[t].pc = "none"
          /\ AddBlockAged(id, LabelOf(id), Rep(60), a)

SpecQuiet == InitPatterns /\ [][NextQuiet]_vars

\* A started agent that is never stopped and may be dropped.
NextDrop ==
    \/ \E c \in Callers : Start(c)
    \/ \E in_runtime \in BOOLEAN : DropAgent(in_runtime)
    \/ DropTaskRun
    \/ \E t \in LoopIds : LoopChanged(t)
    \/ \E t \in LoopIds : LoopTick(t)
    \/ \E t \in LoopIds : IntervalElapsed(t)
    \/ \E t \in LoopIds : LoopReadFlag(t)
    \/ \E t \in LoopIds : PassMessages(t)
    \/ \E t \in LoopIds : PassContextSize(t)
    \/ \E t \in LoopIds : PassSnapshot(t)
    \/ \E t \in LoopIds : PassArchiveStep(t)
    \/ \E r \in Roles : AddMessage(r, <<>>)
    \/ \E id \in BlockIds, a \in Ages :
          AddBlockAged(id, LabelOf(id), Rep(60), a)

SpecDrop == Init /\ [][NextDrop]_vars

\* ======================================================================
\* Message history and storage (src/src/memory.rs, src/src/storage.rs)
\* ======================================================================
\* A call of get_recent_messages(limit) and what it returns.
GetRecentMessagesCall(limit) ==
    /\ recent_ret' = Some(GetRecentMessages(message_history, limit))
    /\ UNCHANGED <<memVars, now, runVars, sleepVars, clientVars, sharedVars,
                   drop_task, ticks, enable_pattern_detection>>

\* MemoryStorage::load_messages: ORDER BY timestamp DESC LIMIT ?, reversed:
\* the newest `limit` stored messages, oldest first.
LoadMessages(stored, limit) ==
    SubSeq(stored, IF Len(stored) > limit THEN Len(stored) - limit + 1 ELSE 1,
           Len(stored))

\* load_from_storage: both loads are made first (an error of either returns
\* with nothing changed), then the block map is cleared and refilled, then
\* the history is cleared and extended with the loaded messages.
LoadFromStorage(loads_ok, stored_blocks, stored_messages, message_limit) ==
    /\ IF loads_ok
       THEN /\ blocks' = [id \in {b.id : b \in stored_blocks} |->
                            CHOOSE b \in stored_blocks : b.id = id]
            /\ message_history' = LoadMessages(stored_messages, message_limit)
            /\ mem_err' = "Ok"
       ELSE /\ mem_err' = "Err"
            /\ UNCHANGED <<blocks, message_history>>
    /\ UNCHANGED <<mgr_blocks, now, runVars, sleepVars, clientVars, sharedVars,
                   auxVars>>

\* What a storage backend holds for the agent, and the limits callers pass.
HistoryRoles == {"user", "assistant"}
HistoryLimits == {0, 1, 2, 3}
StoredMessages == {<<>>, <<Msg("user", <<>>)>>,
                   <<Msg("user", <<>>), Msg("assistant", <<>>)>>}
StoredBlocks == {{}, {NewBlock("A", "task_context", Rep(40), None, TRUE, 0)}}

NextHistory ==
    \/ \E r \in HistoryRoles : AddMessage(r, <<>>)
    \/ \E l \in HistoryLimits : GetRecentMessagesCall(l)
    \/ \E ok \in BOOLEAN, bs \in StoredBlocks, ms \in StoredMessages,
          l \in HistoryLimits : LoadFromStorage(ok, bs, ms, l)

SpecHistory == Init /\ [][NextHistory]_vars

NextSleep ==
    \/ \E c \in Callers : Start(c)
    \/ \E c \in Callers : StopBegin(c)
    \/ \E c \in Callers : StopJoin(c)
    \/ \E t \in LoopIds : LoopChanged(t)
    \/ \E t \in LoopIds : LoopTick(t)
    \/ \E t \in LoopIds : IntervalElapsed(t)
    \/ \E t \in LoopIds : LoopReadFlag(t)
    \/ \E t \in LoopIds : PassMessages(t)
    \/ \E t \in LoopIds : PassContextSize(t)
    \/ \E t \in LoopIds : PassSnapshot(t)
    \/ \E t \in LoopIds : PassArchiveStep(t)
    \/ \E r \in Roles : AddMessage(r, <<>>)
    \/ \E id \in BlockIds, a \in Ages :
          AddBlockAged(id, LabelOf(id), Rep(60), a)
    \/ \E id \in BlockIds : DeleteBlock(id)

SpecSleep == Init /\ [][NextSleep]_vars

\* ======================================================================
\* Properties of the run registry (checked under Spec)
\* ======================================================================
Events(r) == runs[r].events
Status(r) == runs[r].metadata.status
SeqIdsOf(evs) == {evs[i].seq_id : i \in 1..Len(evs)}
ElemsOf(evs) == {evs[i] : i \in 1..Len(evs)}
IsPrefix(p, s) == Len(p) <= Len(s) /\ p = SubSeq(s, 1, Len(p))
StrictlyIncreasing(evs) ==
    \A i, j \in 1..Len(evs) : i < j => evs[i].seq_id < evs[j].seq_id

\* C1: in every reachable registry state the events of each run carry the
\* seq_ids 0,1,...,n-1 in log order (strictly increasing from 0, no gap, no
\* duplicate), whatever the interleaving of the task's appends and cancel_run.
C1_SeqIdsDense ==
    \A r \in DOMAIN runs :
        \A i \in 1..Len(Events(r)) : Events(r)[i].seq_id = i - 1

\* A log that holds both the task's events and cancel_run's event.
C1_Witness ==
    \E r \in DOMAIN runs :
        /\ Len(Events(r)) = 4
        /\ \E i \in 1..4 : Events(r)[i].data = "Cancelled by user"
        /\ \E i \in 1..4 : Events(r)[i].event_type = "Completed"

StatusRank(st) ==
    IF st = "Queued" THEN 0 ELSE IF st = "Running" THEN 1 ELSE 2

\* C2: a run's status only moves forward along Queued -> Running -> terminal,
\* and once it is terminal no step of any actor changes it.
C2_StatusMonotone ==
    [][\A r \in (DOMAIN runs) \cap (DOMAIN runs') :
          /\ StatusRank(runs'[r].metadata.status) >= StatusRank(Status(r))
          /\ Terminal(Status(r)) => runs'[r].metadata.status = Status(r)]_vars

\* C3: cancel_run on a run whose status is Completed is a no-op: the status,
\* the events, total_events, last_seq_id and completed_at are all unchanged.
C3_CancelCompletedNoop ==
    [][\A r \in RunIds :
          (Known(r) /\ Status(r) = "Completed" /\ CancelRun(r)) => runs' = runs]_vars

\* The waiters that obtained the ticket of run r.
Redeemed(r) ==
    {w \in Waiters : waiter[w].run = r
                     /\ waiter[w].state \in {"waiting", "Ok", "Failed", "JoinError"}}
CancelTookTicket(r) ==
    \E i \in 1..Len(Events(r)) : Events(r)[i].data = "Cancelled by user"

\* C4: the completion ticket of a run is redeemed at most once, and every
\* wait_for_completion issued after the ticket was taken (by an earlier
\* wait_for_completion or by cancel_run) returns the handle-already-consumed
\* error at once: it neither blocks nor returns an output.
C4_TicketOnce ==
    /\ [](\A r \in RunIds : Cardinality(Redeemed(r)) <= 1)
    /\ [][\A w \in Waiters, r \in RunIds :
            (/\ WaitForCompletion(w, r)
             /\ Known(r)
             /\ (Redeemed(r) # {} \/ CancelTookTicket(r)))
            => waiter'[w].state = "HandleAlreadyConsumed"]_vars

\* One caller holds the ticket and a second caller was turned away.
C4_Witness ==
    \E w1, w2 \in Waiters :
        /\ waiter[w1].state \in {"waiting", "Ok"}
        /\ waiter[w2].state = "HandleAlreadyConsumed"
        /\ waiter[w1].run = waiter[w2].run

\* C5: for every known run, every log state and every k, stream_events(id,
\* Some(k)) returns exactly the stored events with seq_id > k and
\* stream_events(id, None) returns all stored events, in increasing seq_id
\* order.
C5_StreamExact ==
    \A r \in DOMAIN runs : \A a \in Afters :
        LET got == StreamEvents(Events(r), a)
            want == IF IsSome(a)
                    THEN {e \in ElemsOf(Events(r)) : e.seq_id > Unwrap(a)}
                    ELSE ElemsOf(Events(r))
        IN /\ ElemsOf(got) = want
           /\ Len(got) = Cardinality(want)
           /\ StrictlyIncreasing(got)

\* A client holding events 0 and 1 of a four-event log: the call it makes
\* next, stream_events(id, Some(1)), has to return events 2 and 3 only.
C5_Witness ==
    \E r \in DOMAIN runs :
        /\ Len(Events(r)) = 4
        /\ cursor[r] = Some(1)
        /\ Len(received[r]) = 2

\* C6: a client that resumes with the seq_id of the last event it received
\* (None before the first), interleaved with appends by the task and by
\* cancel_run, receives every event exactly once and in seq_id order: what it
\* holds is always a prefix of the log, and after each call it holds the whole
\* log.
C6_ResumeExactlyOnce ==
    /\ [](\A r \in DOMAIN runs : IsPrefix(received[r], Events(r)))
    /\ [][\A r \in RunIds :
            ResumeStream(r) => received'[r] = Events(r)]_vars

\* The client caught up with a four-event log in more than one call.
C6_Witness ==
    \E r \in DOMAIN runs :
        /\ Len(received[r]) = 4
        /\ received[r] = Events(r)
        /\ cursor[r] = Some(3)
        /\ received[r][1].timestamp < received[r][4].timestamp

EventTypes(r) == [i \in 1..Len(Events(r)) |-> Events(r)[i].event_type]

\* C14: for a run that was not cancelled, once its task has finished the log
\* is exactly Started, Output, Completed with status Completed when the
\* completion call succeeded, and exactly Started, Failed with status Failed
\* when it failed; and at every moment the first event of a non-empty log is
\* Started and the status has left Queued, whatever the interleaving of the
\* task with the registration of the run.
C14_LogShape ==
    \A r \in DOMAIN runs :
        ~CancelTookTicket(r) =>
            /\ Len(Events(r)) > 0 =>
                  /\ Events(r)[1].event_type = "Started"
                  /\ Status(r) # "Queued"
            /\ (task[r].pc = "done" /\ task[r].result = "Ok") =>
                  /\ EventTypes(r) = <<"Started", "Output", "Completed">>
                  /\ Status(r) = "Completed"
            /\ (task[r].pc = "done" /\ task[r].result = "Err") =>
                  /\ EventTypes(r) = <<"Started", "Failed">>
                  /\ Status(r) = "Failed"

\* C15: once wait_for_completion(id) has returned the output of a run, the
\* metadata of that run shows Completed with last_seq_id >= 2; and a
\* registered run whose task has finished is never left Queued or Running.
C15_CompletedAfterWait ==
    /\ \A w \in Waiters :
          (waiter[w].state = "Ok" /\ Known(waiter[w].run)) =>
             /\ Status(waiter[w].run) = "Completed"
             /\ runs[waiter[w].run].metadata.last_seq_id >= 2
    /\ \A r \in DOMAIN runs :
          task[r].pc = "done" => Status(r) \notin {"Queued", "Running"}

\* cancel_run took the ticket of run r before the task had recorded its end.
CancelledUnfinished(r) ==
    \E i \in 1..Len(Events(r)) :
        /\ Events(r)[i].data = "Cancelled by user"
        /\ \A j \in 1..(i - 1) : Events(r)[j].event_type \notin {"Completed", "Failed"}

\* C16: when cancel_run finds the ticket of an unfinished run, the run is
\* Cancelled and the 'Cancelled by user' event is the last of its log: from
\* then on no step of the aborted task appends an event or overwrites the
\* status or completed_at.
C16_CancelIsFinal ==
    /\ [](\A r \in DOMAIN runs :
            CancelledUnfinished(r) =>
               /\ Status(r) = "Cancelled"
               /\ Events(r)[Len(Events(r))].data = "Cancelled by user")
    /\ [][\A r \in (DOMAIN runs) \cap (DOMAIN runs') :
            CancelledUnfinished(r) => runs'[r] = runs[r]]_vars

\* C17: when wait_for_completion holds the ticket of a run, cancel_run(id)
\* returns Ok and changes nothing (status, events, counters, timestamps), the
\* task is never aborted, and the caller that waits receives the task's own
\* result.
C17_CancelAfterWaitNoop ==
    /\ [][\A r \in RunIds :
            (CancelRun(r) /\ Known(r) /\ Redeemed(r) # {}) =>
               /\ ret' = <<"cancel_run", "Ok">>
               /\ runs' = runs
               /\ task' = task
               /\ waiter' = waiter]_vars
    /\ [](\A r \in RunIds : \A w \in Redeemed(r) :
            /\ ~task[r].aborted
            /\ task[r].pc # "cancelled"
            /\ waiter[w].state \in {"Ok", "Failed"} =>
                  waiter[w].state = (IF task[r].result = "Ok" THEN "Ok" ELSE "Failed"))

\* cancel_run returned Ok on a run whose ticket a caller had taken, and that
\* caller then received the output.
C17_Witness ==
    \E w \in Waiters :
        /\ waiter[w].state = "Ok"
        /\ ret = <<"cancel_run", "Ok">>
        /\ Known(waiter[w].run)
        /\ Status(waiter[w].run) = "Completed"

C20_CleanupExact ==
    [][\A d \in {0, 1} :
          CleanupOldRuns(d) =>
             LET gone == {r \in DOMAIN runs :
                            /\ Status(r) \in {"Completed", "Failed", "Cancelled"}
                            /\ runs[r].metadata.completed_at # None
                            /\ runs[r].metadata.completed_at[1] < now - d}
             IN /\ DOMAIN runs' = (DOMAIN runs) \ gone
                /\ \A r \in DOMAIN runs' : runs'[r] = runs[r]
                /\ \A r \in DOMAIN runs :
                      Status(r) \in {"Queued", "Running"} => r \in DOMAIN runs'
                /\ ret' = <<"cleanup_old_runs", Cardinality(gone)>>]_vars

\* A cleanup that removed one run.
C20_Witness ==
    /\ ret = <<"cleanup_old_runs", 1>>
    /\ runs = <<>>
    /\ \E r \in RunIds : task[r].pc \in {"done", "cancelled"}

\* ======================================================================
\* Properties of pagination and metadata (checked under SpecPage)
\* ======================================================================
\* The stored events after the cursor (all of them when there is none).
After(evs, c) ==
    IF c = None THEN ElemsOf(evs) ELSE {e \in ElemsOf(evs) : e.seq_id > c[1]}
MinOf(a, b) == IF a < b THEN a ELSE b

\* C21: for every stored log, cursor and limit, get_events_paginated returns,
\* in order, the first min(limit, remaining) events with seq_id > cursor
\* (from the start of the log without a cursor), never more than limit, with
\* has_more true exactly when events after the page remain and total_events
\* the number of stored events.
C21_PageExact ==
    \A r \in DOMAIN runs : \A c \in Afters : \A l \in Limits :
        LET res == Paginate(runs[r], c, l)
            remaining == After(Events(r), c)
            n == MinOf(l, Cardinality(remaining))
        IN /\ ~res.panic
           /\ Len(res.events) = n
           /\ Len(res.events) <= l
           /\ StrictlyIncreasing(res.events)
           /\ ElemsOf(res.events) \subseteq remaining
           /\ \A e \in remaining \ ElemsOf(res.events) :
                 \A f \in ElemsOf(res.events) : f.seq_id < e.seq_id
           /\ res.has_more = (Cardinality(remaining) > n)
           /\ res.total_events = Len(Events(r))

\* C22: in every result of get_events_paginated, next_cursor is None when
\* has_more is false, and is Some only when a further page exists.
C22_NextCursorNoneAtEnd ==
    \A r \in DOMAIN runs : \A c \in Afters : \A l \in Limits :
        LET res == Paginate(runs[r], c, l)
        IN ~res.panic =>
              /\ ~res.has_more => res.next_cursor = None
              /\ res.next_cursor # None => res.has_more

\* C23: a client that starts with no cursor and a limit >= 1 and follows
\* next_cursor while has_more is true holds, at every moment, a prefix of the
\* log (each event once, in seq_id order, also when events are appended
\* between its calls); each call returns only events later than all it
\* holds; each call that leaves has_more true returned at least one event;
\* and the call that returns has_more false leaves it with the whole log.
C23_Traversal ==
    /\ [](\A r \in DOMAIN runs : IsPrefix(pg[r].received, Events(r)))
    /\ [][\A r \in RunIds :
            (Known(r) /\ pg'[r] # pg[r]) =>
               LET got == SubSeq(pg'[r].received, Len(pg[r].received) + 1,
                                 Len(pg'[r].received))
               IN /\ pg'[r].received = pg[r].received \o got
                  /\ \A e \in ElemsOf(got) : \A f \in ElemsOf(pg[r].received) :
                        e.seq_id > f.seq_id
                  /\ StrictlyIncreasing(got)
                  /\ pg'[r].phase = "more" => Len(got) \in 1..pg'[r].limit
                  /\ pg'[r].phase = "end" => pg'[r].received = Events(r)]_vars

\* A traversal of a four-event log with limit 1 that took a page before the
\* last event was appended and has now reached the end.
C23_Witness ==
    \E r \in DOMAIN runs :
        /\ pg[r].phase = "end"
        /\ pg[r].limit = 1
        /\ Len(pg[r].received) = 4
        /\ pg[r].received[4].data = "Cancelled by user"

\* C24: for a run with at least one event, metadata.last_seq_id is the
\* seq_id of the event appended last, so that stream_events(id,
\* Some(last_seq_id)) with the last_seq_id of a metadata snapshot returns
\* exactly the events appended after the snapshot was taken.
C24_LastSeqIdIsLast ==
    /\ \A r \in DOMAIN runs :
          Len(Events(r)) > 0 =>
             runs[r].metadata.last_seq_id = Events(r)[Len(Events(r))].seq_id
    /\ \A r \in DOMAIN runs :
          (IsSome(meta_snap[r]) /\ meta_snap[r][1].log_len > 0) =>
             StreamEvents(Events(r), Some(meta_snap[r][1].metadata.last_seq_id))
                = SubSeq(Events(r), meta_snap[r][1].log_len + 1, Len(Events(r)))

\* ======================================================================
\* Properties of the message history (checked under SpecHistory)
\* ======================================================================
LastEntries(history, n) ==
    [i \in 1..n |-> history[Len(history) - n + i]]

\* C32: the message history is append-only: over any step the earlier
\* history is a prefix of the later one (no entry is removed, reordered or
\* modified), and get_recent_messages(limit) returns the last
\* min(limit, length) entries in log order.
C32_AppendOnly ==
    /\ [][IsPrefix(message_history, message_history')]_vars
    /\ [][\A l \in HistoryLimits :
            GetRecentMessagesCall(l) =>
               recent_ret' = Some(LastEntries(message_history,
                                              MinOf(l, Len(message_history))))]_vars

\* ======================================================================
\* Properties of shared blocks (checked under SpecShared)
\* ======================================================================
Occurrences(seq, id) == Cardinality({i \in 1..Len(seq) : seq[i] = id})
OccurrencesOfBlock(seq, id) == Cardinality({i \in 1..Len(seq) : seq[i].id = id})

C30_AttachIdempotent ==
    /\ [](\A a \in Agents : \A id \in AttachIds :
             /\ Occurrences(shared_blocks[a], id) <= 1
             /\ OccurrencesOfBlock(all_ret[a].shared, id) <= 1)
    /\ [][\A a \in Agents : \A id \in AttachIds :
            AttachSharedBlock(a, id) =>
               /\ Occurrences(shared_blocks'[a], id) = 1
               /\ Occurrences(shared_blocks[a], id) = 1 =>
                     shared_blocks'[a] = shared_blocks[a]]_vars

\* Three attach calls were made, all by agent 1 for S, and all_blocks gave
\* it the block once.
C30_Witness ==
    /\ attach_calls = 3
    /\ shared_blocks[1] = <<"S">>
    /\ shared_blocks[2] = <<>>
    /\ all_ret[1].pc = "returned"
    /\ Len(all_ret[1].shared) = 1

\* ======================================================================
\* Properties of the sleep-time agent (checked under SpecSleep)
\* ======================================================================
AliveLoops == {t \in LoopIds : Alive(t)}
InPass(t) == loops[t].pc \in {"messages", "context_size", "snapshot", "archive",
                              "summarize_read", "summarize_write",
                              "patterns_read", "patterns_write"}

\* C12: under any interleaving of start() and stop() calls on one instance,
\* start() on an instance that is Running returns the already-running error
\* and spawns nothing, and at most one consolidation loop task is alive at
\* any time.
C12_SingleLoop ==
    /\ [](Cardinality(AliveLoops) <= 1)
    /\ [][\A c \in Callers :
            (Start(c) /\ running) =>
               /\ sleep_ret' = <<"start", "AlreadyRunning">>
               /\ loops' = loops
               /\ task_handle' = task_handle
               /\ running' = running]_vars

\* A second start() was refused while the loop of a restart was alive.
C12_Witness ==
    /\ sleep_ret = <<"start", "AlreadyRunning">>
    /\ running
    /\ \E t \in LoopIds : Alive(t)
    /\ \E t \in LoopIds : loops[t].pc = "done"

\* C13: stop() always returns: whatever the loop task is doing when stop()
\* is called, the loop can still end without a further interval tick, so a
\* stop() that waits for the loop task is never facing a loop task that waits
\* for the running-flag lock which that stop() holds.
C13_StopReturns ==
    \A c \in Callers :
        caller[c].pc = "joining" =>
            ~(loops[caller[c].target].pc = "read_flag" /\ running_lock = c)

\* C19: a failed consolidation pass ends inside the loop: the loop task goes
\* back to waiting for the next tick and the flag stays set; a loop task only
\* ever ends after stop() has cleared the flag or raised the shutdown signal.
C19_PassErrorSwallowed ==
    /\ [][\A t \in LoopIds :
            (InPass(t) /\ ~InPass(t)' /\ loops'[t].last_pass = "Err") =>
                  /\ loops'[t].pc = "select"
                  /\ running' = running]_vars
    /\ [][\A t \in LoopIds :
            (Alive(t) /\ loops'[t].pc = "done") => (shutdown \/ ~running)]_vars

\* After a failed pass, a later tick has started another pass on the same
\* loop task, the instance still Running.
C19_Witness ==
    \E t \in LoopIds :
        /\ loops[t].last_pass = "Err"
        /\ loops[t].pc = "archive"
        /\ running
        /\ ~shutdown

\* C25: the Stopped -> Running -> Stopped cycle is repeatable: a start() on
\* a stopped instance succeeds and spawns a loop task; that loop task is not
\* ended by what an earlier stop() left behind (it only ends once a stop()
\* issued after its start has taken its handle); and a stop() that joins the
\* loop task of a restart terminates it, so it is never waiting for a loop
\* task that waits for the running-flag lock this stop() holds.
Restarted(t) == \E u \in LoopIds \ {t} : loops[u].pc = "done"
C25_StartSucceeds ==
    \A c \in Callers :
        (Start(c) /\ ~running) =>
            /\ sleep_ret' = <<"start", "Ok">>
            /\ running'
            /\ \E t \in LoopIds : ~Alive(t) /\ Alive(t)' /\ task_handle' = Some(t)
C25_NoLeftoverShutdown ==
    \A t \in LoopIds :
        (Alive(t) /\ Restarted(t) /\ loops'[t].pc = "done") => task_handle # Some(t)
C25_CycleRepeatable ==
    /\ [][C25_StartSucceeds]_vars
    /\ [][C25_NoLeftoverShutdown]_vars
    /\ [](\A c \in Callers :
            (caller[c].pc = "joining" /\ Restarted(caller[c].target)) =>
                ~(loops[caller[c].target].pc = "read_flag" /\ running_lock = c))

\* C26: a consolidation pass moves a block out of context only if, at the
\* pass, context_size() exceeded context_warning_threshold and the block, as
\* the pass read it, was in context, last updated more than one hour before
\* the pass's clock read, and not labeled persona, organization or system;
\* the consolidator never moves a protected block out of context, never adds
\* or removes a block, and when the threshold is not exceeded the pass ends
\* with every block as it was.
ConsolidatorStep(t) == loops'[t] # loops[t] /\ InPass(t)
MovedOut(id) == id \in DOMAIN blocks /\ id \in DOMAIN blocks'
                   /\ blocks[id].in_context /\ ~blocks'[id].in_context
C26_OnlyOldUnprotected ==
    \A t \in LoopIds :
        ConsolidatorStep(t) =>
            /\ DOMAIN blocks' = DOMAIN blocks
            /\ \A id \in DOMAIN blocks :
                  blocks'[id] # blocks[id] =>
                      /\ MovedOut(id)
                      /\ loops[t].pc = "archive"
                      /\ blocks[id].label \notin ProtectedLabels
                      /\ \E b \in loops[t].snapshot :
                            /\ b.id = id
                            /\ b.in_context
                            /\ loops[t].pass_now - b.updated_at > OneHour
                            /\ b.label \notin ProtectedLabels
C26_ThresholdGate ==
    \A t \in LoopIds :
        /\ (loops[t].pc # "snapshot" /\ loops'[t].pc = "snapshot") =>
               /\ loops[t].pc = "context_size"
               /\ ContextSize(blocks) > ContextWarningThreshold
        /\ (loops[t].pc # "archive" /\ loops'[t].pc = "archive") =>
               loops[t].pc = "snapshot"
        /\ (PassContextSize(t) /\ ContextSize(blocks) <= ContextWarningThreshold) =>
               /\ blocks' = blocks
               /\ ~InPass(t)'
C27_PassSkipped ==
    [][\A t \in LoopIds :
         (PassMessages(t)
            /\ Len(GetRecentMessages(message_history, RecentLimit))
                  < MinMessagesForConsolidation) =>
               /\ ~InPass(t)'
               /\ loops'[t].pc = "select"
               /\ loops'[t].last_pass = "Ok"
               /\ blocks' = blocks
               /\ message_history' = message_history]_vars

\* A pass ended on an empty history while an old task_context block larger
\* than the threshold stayed in context.
C27_Witness ==
    /\ message_history = <<>>
    /\ \E t \in LoopIds : loops[t].pc = "select" /\ loops[t].last_pass = "Ok"
    /\ "A" \in DOMAIN blocks
    /\ blocks["A"].in_context
    /\ now - blocks["A"].updated_at > OneHour
    /\ ContextSize(blocks) > ContextWarningThreshold

\* ======================================================================
\* Properties of the summarization (checked under SpecSummary)
\* ======================================================================
Oldest(recent) == SubSeq(recent, 1, 50)
RoleCount(msgs, role) == Cardinality({i \in 1..Len(msgs) : msgs[i].role = role})
IsLowercase(word) == \A i \in 1..Len(word) : ~Contains(UpperCase, word[i])
KeywordsOK(keywords, msgs) ==
    /\ Len(keywords) <= 10
    /\ \A i, j \in 1..Len(keywords) : keywords[i] = keywords[j] => i = j
    /\ \A i \in 1..Len(keywords) :
          /\ Len(keywords[i]) > 5
          /\ IsLowercase(keywords[i])
          /\ \E m \in 1..Len(msgs) : \E w \in 1..Len(msgs[m].content) :
                ToLowercase(msgs[m].content[w]) = keywords[i]
IsSuffix(suffix, text) ==
    /\ Len(suffix) <= Len(text)
    /\ SubSeq(text, Len(text) - Len(suffix) + 1, Len(text)) = suffix

\* The step with which loop task t ends a pass that got past the message gate
\* with at least 50 recent messages.
EndsLongPass(t) ==
    /\ InPass(t) /\ ~InPass(t)'
    /\ Len(loops[t].recent) >= 50

\* After the step a block labeled conversation_summary holds, as its value or
\* appended to it after a newline, the text built from the oldest 50 of the
\* pass's recent messages: their user and assistant counts and keywords that
\* are at most 10, distinct, lowercase and longer than 5.
SummaryRecorded(t) ==
    LET oldest == Oldest(loops[t].recent)
        keywords == KeywordsOf(oldest, <<>>)
        text == FormatSummary(RoleCount(oldest, "user"),
                              RoleCount(oldest, "assistant"), keywords)
    IN /\ KeywordsOK(keywords, oldest)
       /\ \E id \in DOMAIN blocks' :
             /\ blocks'[id].label = "conversation_summary"
             /\ \/ /\ id \notin DOMAIN blocks
                   /\ blocks'[id].value = text
                \/ /\ id \in DOMAIN blocks
                   /\ blocks'[id].value # blocks[id].value
                   /\ IsSuffix(NL \o text, blocks'[id].value)

\* With fewer than 50 recent messages the pass never enters the
\* summarization, adds no block and changes no value.
ShortPassInert(t) ==
    (InPass(t) /\ loops'[t] # loops[t] /\ Len(loops[t].recent) < 50) =>
        /\ loops'[t].pc \notin {"summarize_read", "summarize_write"}
        /\ DOMAIN blocks' = DOMAIN blocks
        /\ \A id \in DOMAIN blocks : blocks'[id].value = blocks[id].value

\* C28: when a pass runs with summarization enabled and at least 50 recent
\* messages, afterwards a block labeled conversation_summary exists (newly
\* created, or the existing one with the summary appended) whose added text
\* records the user and assistant counts of the oldest 50 messages and at
\* most 10 distinct lowercase keywords of length > 5; with fewer than 50
\* messages the summarization step creates and changes nothing.
C28_SummaryAfterPass ==
    [][\A t \in LoopIds :
         /\ EndsLongPass(t) => SummaryRecorded(t)
         /\ ShortPassInert(t)]_vars

\* C28 as the code has it: the same for a pass that completes without an
\* error; a pass whose archival or whose write of the summary fails ends
\* without the write of the summary.
C28_SummaryAfterOkPass ==
    [][\A t \in LoopIds :
         /\ (EndsLongPass(t) /\ loops'[t].last_pass = "Ok") => SummaryRecorded(t)
         /\ (EndsLongPass(t) /\ loops'[t].last_pass = "Err") =>
               \A id \in DOMAIN blocks' :
                  id \in DOMAIN blocks /\ blocks'[id].value = blocks[id].value
         /\ ShortPassInert(t)]_vars

\* A pass over 60 messages has ended without error and the caller's
\* conversation_summary block now ends with the summary of the oldest 50.
C28_Witness ==
    /\ \E t \in LoopIds : loops[t].pc = "select" /\ loops[t].last_pass = "Ok"
    /\ Len(message_history) = 60
    /\ "C" \in DOMAIN blocks
    /\ Len(blocks["C"].value) > 41
    /\ blocks["C"].value = Rep(40) \o NL \o SummaryOf(message_history)

\* ======================================================================
\* Properties of the teardown (checked under SpecDrop)
\* ======================================================================
\* C33: if a SleepTimeAgent that is Running is dropped without stop()
\* having been called, its consolidation loop eventually terminates: while
\* the loop task is still alive after the drop, the stop is under way (the
\* task that clears the flag and raises the signal is waiting to run) or
\* done (the flag is cleared and the signal raised).
C33_DropStopsLoop ==
    (drop_task # "none" /\ AliveLoops # {}) =>
        \/ drop_task = "spawned"
        \/ ~running /\ shutdown

\* ======================================================================
\* Properties of the memory store (checked under SpecMem)
\* ======================================================================
SizeOK(b) == IsSome(b.max_size) => Len(b.value) <= Unwrap(b.max_size)
OverMax(b, v) == IsSome(b.max_size) /\ Len(v) > Unwrap(b.max_size)

\* The Vecs in_context_blocks() can return in a state: the copies of the
\* in-context blocks, in any order of the map.
InContextVecs(bs) ==
    LET ids == InContextBlocks(bs)
        n == Cardinality(ids)
    IN {[i \in 1..n |-> bs[o[i]]] :
          o \in {f \in [1..n -> ids] : \A i, j \in 1..n : f[i] = f[j] => i = j}}
RECURSIVE SumOfSizes(_)
SumOfSizes(vec) ==
    IF vec = <<>> THEN 0 ELSE Len(Head(vec).value) + SumOfSizes(Tail(vec))

\* C31: after every add_block, update_block, move_out_of_context,
\* move_into_context and delete_block, context_size() equals the sum of
\* size(b) over the blocks returned by in_context_blocks() in the same state,
\* and every block returned is in context.
C31_ContextSizeIsSum ==
    \A vec \in InContextVecs(blocks) :
        /\ ContextSize(blocks) = SumOfSizes(vec)
        /\ \A i \in 1..Len(vec) : vec[i].in_context

\* A move_out_of_context has left one block of 60 in context and one of 40
\* out of it.
C31_Witness ==
    /\ mem_err = "Ok"
    /\ DOMAIN blocks = {"A", "B"}
    /\ blocks["A"].in_context /\ Len(blocks["A"].value) = 60
    /\ ~blocks["B"].in_context /\ Len(blocks["B"].value) = 40
    /\ blocks["B"].updated_at > blocks["A"].updated_at

\* C7: context budget invariant: in every reachable state of an AgentMemory
\* the sum of the sizes of the in-context blocks is <= max_context_size.
C7_ContextBudget == ContextSize(blocks) <= MaxContextSize

\* C8: for an existing block id, move_into_context(id) fails with the
\* context-budget error and leaves every block unchanged if and only if (sum
\* of the sizes of the in-context blocks other than id) + size(id) >
\* max_context_size; otherwise it succeeds and the block is in context.
C8_MoveIntoContextIff ==
    [][\A id \in BlockIds :
          (MoveIntoContext(id) /\ id \in DOMAIN blocks) =>
             LET others == {i \in InContextBlocks(blocks) : i # id}
             IN IF SumSize(blocks, others) + Size(blocks[id]) > MaxContextSize
                THEN /\ mem_err' = "ContextBudgetExceeded"
                     /\ blocks' = blocks
                ELSE /\ mem_err' = "Ok"
                     /\ blocks'[id].in_context
                     /\ blocks'[id].value = blocks[id].value
                     /\ \A i \in DOMAIN blocks \ {id} : blocks'[i] = blocks[i]]_vars

\* The scenario: budget 100, A (60) in context, B (60) out of context, and
\* move_into_context(B) has just been refused.
C8_Witness ==
    /\ DOMAIN blocks = {"A", "B"}
    /\ Size(blocks["A"]) = 60 /\ blocks["A"].in_context
    /\ Size(blocks["B"]) = 60 /\ ~blocks["B"].in_context
    /\ mem_err = "ContextBudgetExceeded"

\* C11: for any block present in an AgentMemory, in any reachable state,
\* move_out_of_context(id) immediately followed by move_into_context(id)
\* succeeds, and the block is then in in_context_blocks() (and not in
\* out_of_context_blocks()) with the same id and the same value.
C11_RoundTripRestores ==
    [][\A id \in BlockIds :
          (MoveOutThenInto(id) /\ id \in DOMAIN blocks) =>
             /\ mem_err' = "Ok"
             /\ id \in InContextBlocks(blocks')
             /\ id \notin OutOfContextBlocks(blocks')
             /\ blocks'[id].id = blocks[id].id
             /\ blocks'[id].value = blocks[id].value]_vars

\* C9: every block held in an AgentMemory or in the SharedMemoryManager
\* satisfies len(value) <= max_size whenever max_size is set.
C9_BlockSizeInvariant ==
    /\ \A i \in DOMAIN blocks : SizeOK(blocks[i])
    /\ \A i \in DOMAIN mgr_blocks : SizeOK(mgr_blocks[i])

\* C10: an update_block (AgentMemory or SharedMemoryManager) or an append
\* whose resulting value is longer than the block's max_size returns an error
\* and leaves that block (value, updated_at, in_context) and every other
\* block as before; an update within max_size replaces the value.
C10_UpdateAllOrNothing ==
    [][/\ \A id \in DOMAIN blocks : \A v \in Values :
            UpdateBlock(id, v) =>
               IF OverMax(blocks[id], v)
               THEN mem_err' = "BlockSizeExceeded" /\ blocks' = blocks
               ELSE mem_err' = "Ok" /\ blocks'[id].value = v
       /\ \A id \in DOMAIN blocks : \A c \in Contents :
            AppendBlock(id, c) =>
               IF OverMax(blocks[id], blocks[id].value \o NL \o c)
               THEN mem_err' = "BlockSizeExceeded" /\ blocks' = blocks
               ELSE /\ mem_err' = "Ok"
                    /\ blocks'[id].value = blocks[id].value \o NL \o c
       /\ \A id \in DOMAIN mgr_blocks : \A v \in Values :
            MgrUpdateBlock(id, v) =>
               IF OverMax(mgr_blocks[id], v)
               THEN mem_err' = "BlockSizeExceeded" /\ mgr_blocks' = mgr_blocks
               ELSE mem_err' = "Ok" /\ mgr_blocks'[id].value = v]_vars

\* An over-long update of a block that carries a max_size was refused after
\* the clock had moved on from the block's last write.
C10_Witness ==
    /\ mem_err = "BlockSizeExceeded"
    /\ \E i \in DOMAIN blocks :
          /\ IsSome(blocks[i].max_size)
          /\ blocks[i].updated_at < now
          /\ Len(blocks[i].value) = MaxBlockSize
\* C36: when stop() returns Ok the running flag is false and the loop started
\* by the preceding start() has ended; from then until the next start() (the
\* flag is false and no call holds its guard) no loop task is alive and no
\* step of the consolidator adds, updates or moves a block.
StopReturnsOk ==
    \/ \E c \in Callers : StopJoin(c)
    \/ \E c \in Callers : StopBegin(c) /\ caller' = caller
Stopped == ~running /\ running_lock = 0
C36_StopEndsLoop ==
    /\ [][StopReturnsOk => (sleep_ret' = <<"stop", "Ok">> /\ Stopped'
                              /\ AliveLoops' = {})]_vars
    /\ [](Stopped => AliveLoops = {})
    /\ [][Stopped => \A t \in LoopIds :
                         ConsolidatorStep(t) => blocks' = blocks]_vars

\* stop() has returned after a loop that archived a block was joined.
C36_Witness ==
    /\ sleep_ret = <<"stop", "Ok">>
    /\ Stopped
    /\ \E t \in LoopIds : loops[t].pc = "done"
    /\ \E id \in DOMAIN blocks : ~blocks[id].in_context

\* C34: a pass aborts at its first failing step: when the archival fails on
\* a block of its snapshot, the pass ends there with the error, so neither
\* the summarization nor the pattern detection runs in it, and the step
\* changes no block, so the blocks it archived before stay out of context.
ArchivalFails(t) ==
    /\ loops[t].pc = "archive"
    /\ loops[t].snapshot # {}
    /\ loops'[t].pc # "archive"
C34_AbortAtArchival ==
    [][\A t \in LoopIds :
          ArchivalFails(t) =>
              /\ loops'[t].pc = "select"
              /\ loops'[t].last_pass = "Err"
              /\ blocks' = blocks]_vars

\* A pass over a batch of messages has ended with the archival's error
\* after it had archived a block: no summary and no pattern block exists.
C34_Witness ==
    /\ Len(message_history) >= SummaryBatch
    /\ \E t \in LoopIds : loops[t].pc = "select" /\ loops[t].last_pass = "Err"
    /\ \E id \in DOMAIN blocks : ~blocks[id].in_context
    /\ \A id \in DOMAIN blocks : blocks[id].label \notin {SummaryLabel, PatternsLabel}

\* C37: no completed write is lost to the consolidator: when a pass writes
\* back the conversation_summary or the detected_patterns block it has read,
\* and another writer has changed the block's value since the pass read it,
\* the value the pass leaves still begins with that writer's value.
WritesBack(t, pc) ==
    /\ loops[t].pc = pc
    /\ loops'[t].pc # pc
    /\ IsSome(loops[t].existing)
    /\ Unwrap(loops[t].existing).id \in DOMAIN blocks
    /\ blocks[Unwrap(loops[t].existing).id].value # Unwrap(loops[t].existing).value
C37_NoLostWrite ==
    [][\A t \in LoopIds :
          (WritesBack(t, "summarize_write") \/ WritesBack(t, "patterns_write")) =>
              LET id == Unwrap(loops[t].existing).id
              IN IsPrefix(blocks[id].value, blocks'[id].value)]_vars

\* C38: whatever passes and owner operations have run, the memory holds at
\* most one block labeled conversation_summary and at most one labeled
\* detected_patterns.
Labeled(label) == {id \in DOMAIN blocks : blocks[id].label = label}
C38_OneBlockPerLabel ==
    /\ Cardinality(Labeled(SummaryLabel)) <= 1
    /\ Cardinality(Labeled(PatternsLabel)) <= 1

\* C39: a pass is idempotent when nothing changed: with the owner leaving
\* history and blocks alone, no step of a pass that follows a successful
\* pass changes the label, the value or the context membership of a block,
\* or adds or removes one.
BlockContents(bs) ==
    [id \in DOMAIN bs |-> [label |-> bs[id].label, value |-> bs[id].value,
                           in_context |-> bs[id].in_context]]
C39_SecondPassInert ==
    [][\A t \in LoopIds :
          (ConsolidatorStep(t) /\ loops[t].last_pass = "Ok") =>
              BlockContents(blocks') = BlockContents(blocks)]_vars

\* C35: in every registry state a run's status agrees with its log: Queued
\* implies the log is empty, Running implies the first event is Started,
\* Completed implies the log holds a Completed event, Failed implies it
\* holds a Failed event, Cancelled implies it holds a Failed event that
\* carries 'Cancelled by user'.
HasEvent(r, type) == \E e \in ElemsOf(Events(r)) : e.event_type = type
C35_StatusAgreesWithLog ==
    \A r \in DOMAIN runs :
        /\ Status(r) = "Queued" => Events(r) = <<>>
        /\ Status(r) = "Running" =>
              (Events(r) # <<>> /\ Events(r)[1].event_type = "Started")
        /\ Status(r) = "Completed" => HasEvent(r, "Completed")
        /\ Status(r) = "Failed" => HasEvent(r, "Failed")
        /\ Status(r) = "Cancelled" =>
              \E e \in ElemsOf(Events(r)) :
                  e.event_type = "Failed" /\ e.data = "Cancelled by user"

\* C40: wait_for_completion holds no registry lock while it waits: while a
\* caller waits on a run whose task has not ended, the task's next step and
\* every registry operation on it (cancel_run, stream_events,
\* get_run_metadata, cleanup_old_runs, another wait_for_completion) can be
\* taken, so waiter and task never block each other.
TaskCanStep(r) ==
    \/ ENABLED TaskPoll(r)
    \/ ENABLED TaskYield(r)
    \/ ENABLED TaskStart(r)
    \/ \E res \in {"Ok", "Err"} : ENABLED TaskReact(r, res)
    \/ ENABLED TaskFinish(r)
WaitsOnLive(w) == waiter[w].state = "waiting" /\ Live(waiter[w].run)
C40_WaitHoldsNoLock ==
    \A w \in Waiters :
        WaitsOnLive(w) =>
            LET r == waiter[w].run
            IN /\ TaskCanStep(r)
               /\ (task[r].pc = "start" /\ ~task[r].suspended) => ENABLED TaskStart(r)
               /\ (task[r].pc = "finish" /\ ~task[r].suspended) => ENABLED TaskFinish(r)
               /\ ENABLED CancelRun(r)
               /\ ENABLED ResumeStream(r)
               /\ ENABLED GetRunMetadata(r)
               /\ \A d \in {0, 1} : ENABLED CleanupOldRuns(d)
               /\ \A v \in Waiters :
                     waiter[v].state = "idle" => ENABLED WaitForCompletion(v, r)

\* A caller waits on a run whose task is in its first critical section's
\* poll, while another caller is free to call in.
C40_Witness ==
    \E w \in Waiters :
        /\ WaitsOnLive(w)
        /\ task[waiter[w].run].pc = "start"
        /\ ~task[waiter[w].run].suspended
        /\ \E v \in Waiters : waiter[v].state = "idle"

====
